---- MODULE Spec2Model ----
(***************************************************************************)
(* Invoice parser / anomaly engine (app/services, app/controllers,         *)
(* app/views, app/models).                                                 *)
(*                                                                         *)
(* Numbers.  quantity, unit_price, total_price and total_amount are Python *)
(* floats.  They are modelled as integers counting hundredths (12500 is    *)
(* 125.00), so that round(x, 2) is a rounding to a whole number of         *)
(* hundredths.  The expressions the detectors and the aggregation compute  *)
(* are ratios of such numbers; they are evaluated here exactly, by cross-  *)
(* multiplication and integer division.  The rounding error of double      *)
(* arithmetic (an exact 40 computed as 39.999999999999996) is not          *)
(* modelled.                                                               *)
(*                                                                         *)
(* Optional[T] is modelled as a sequence of length 0 (None) or 1.          *)
(***************************************************************************)
EXTENDS Integers, Sequences, FiniteSets, TLC

VARIABLES
    invoices,   \* StorageService._invoices: the stored Invoice records, in dict insertion order
    nextId,     \* number of ids handed out so far by uuid.uuid4()
    response,   \* the answer of the last request handled by a view
    result,     \* what the last AnomalyService.analyze_invoice call returned (or that it raised)
    dets,       \* aggregation harness: the list of detections given to _calculate_risk_score
    agg,        \* aggregation harness: the score of dets
    prevAgg,    \* aggregation harness: the score of dets without its last element
    doc,        \* harnesses: the input of the function under test (for the extraction, the uploaded document as the renderers see it)
    parsed,     \* harnesses: what the function under test did with doc
    erpnext     \* the ERPNext side: whether Config holds its address and keys, and the purchase invoices created there

vars == <<invoices, nextId, response, result, dets, agg, prevAgg, doc, parsed, erpnext>>

----------------------------------------------------------------------------
(* Generic helpers *)

None == <<>>
Some(v) == <<v>>

\* a variable that the last step did not use
Idle == [op |-> "none"]

Min(a, b) == IF a <= b THEN a ELSE b
Abs(a) == IF a < 0 THEN 0 - a ELSE a

\* int(x) for x = num/den with den > 0: truncation toward zero
Trunc(num, den) == IF num >= 0 THEN num \div den ELSE 0 - ((0 - num) \div den)

RECURSIVE SumSeq(_)
SumSeq(s) == IF s = <<>> THEN 0 ELSE Head(s) + SumSeq(Tail(s))

RECURSIVE MaxSeq(_)
MaxSeq(s) == IF Len(s) = 1 THEN Head(s)
             ELSE LET m == MaxSeq(Tail(s)) IN IF Head(s) >= m THEN Head(s) ELSE m

RECURSIVE Flatten(_)
Flatten(ss) == IF ss = <<>> THEN <<>> ELSE Head(ss) \o Flatten(Tail(ss))

\* the least element of a non-empty set of integers
MinOf(S) == CHOOSE x \in S : \A y \in S : x <= y

\* num/den rounded to the nearest integer, ties to even (Python's round), for
\* den > 0
RoundHalfEven(num, den) ==
    LET q == num \div den
        r == num % den
    IN IF 2 * r < den THEN q
       ELSE IF 2 * r > den THEN q + 1
       ELSE IF q % 2 = 0 THEN q ELSE q + 1

\* x whole units, in hundredths
U(x) == 100 * x

----------------------------------------------------------------------------
(* The string operations of the program, tabulated on the strings that     *)
(* occur in the model: each table holds what the Python operation returns. *)

\* str.lower()
Lower(s) ==
    CASE s = "Widget" -> "widget"
      [] s = "Gadget" -> "gadget"
      [] s = "Service" -> "service"
      [] s = "Shipping" -> "shipping"
      [] s = "TOTAL:" -> "total:"
      [] s = "Thank" -> "thank"
      [] s = "Refund" -> "refund"
      [] s = "Item" -> "item"
      [] s = "Qty" -> "qty"
      [] s = "Price" -> "price"
      [] s = "Total" -> "total"
      [] s = "Invoice" -> "invoice"
      [] s = "INV-2024-001" -> "inv-2024-001"
      [] s = "Number:" -> "number:"
      [] s = "Vendor:" -> "vendor:"
      [] s = "Acme" -> "acme"
      [] s = "Corp" -> "corp"
      [] s = "Date:" -> "date:"
      [] s = "January" -> "january"
      [] s = "INVOICE" -> "invoice"
      [] s = "Due" -> "due"
      [] s = "Ref" -> "ref"
      [] s = "INV2024001" -> "inv2024001"
      [] s = "Item Name" -> "item name"
      [] s = "Quantity" -> "quantity"
      [] s = "Unit Price" -> "unit price"
      [] s = "Total Price" -> "total price"
      [] s = "Description" -> "description"
      [] s = "Amount" -> "amount"
      [] s = "Bolt" -> "bolt"
      [] s = "Credit" -> "credit"
      [] s = "Valve" -> "valve"
      [] s = "Widget " -> "widget "
      [] s = "Nut" -> "nut"
      [] s = "Washer" -> "washer"
      [] s = "Invoice Number:" -> "invoice number:"
      [] s = "Acme Corp" -> "acme corp"
      [] s = "Invoice Date:" -> "invoice date:"
      [] s = "January 15, 2024" -> "january 15, 2024"
      [] s = "INV-001" -> "inv-001"
      [] s = "ABC Supplies Co." -> "abc supplies co."
      [] s = "Vendor" -> "vendor"
      [] s = "Date: 2024-01-15" -> "date: 2024-01-15"
      [] s = "Bill To:" -> "bill to:"
      [] s = "Customer" -> "customer"
      [] s = "INVOICE.PDF" -> "invoice.pdf"
      [] s = "ACME" -> "acme"
      [] s = "Other" -> "other"
      [] s = "Item 1" -> "item 1"
      [] s = "Item 2" -> "item 2"
      [] OTHER -> s

\* str.strip()
Strip(s) ==
    CASE s = "Widget " -> "Widget"
      [] OTHER -> s

\* s.replace('$', '').replace(',', '').strip()  (the variants of lines
\* 210, 231, 247 and 407 agree on these strings)
StripMoney(s) ==
    CASE s = "$50.00" -> "50.00"
      [] s = "$1,350.00" -> "1350.00"
      [] s = "15," -> "15"
      [] s = "$125.00" -> "125.00"
      [] s = "$1,250.00" -> "1250.00"
      [] s = "$100.00" -> "100.00"
      [] s = "$1.00" -> "1.00"
      [] s = "-$50.00" -> "-50.00"
      [] s = "January 15, 2024" -> "January 15 2024"
      [] OTHER -> s

\* what ([A-Z0-9\-]+) with re.IGNORECASE captures at the start of s
AlnumPrefix(s) ==
    CASE s = "Widget" -> "Widget"
      [] s = "10" -> "10"
      [] s = "125.00" -> "125"
      [] s = "1250.00" -> "1250"
      [] s = "Gadget" -> "Gadget"
      [] s = "2" -> "2"
      [] s = "x" -> "x"
      [] s = "Service" -> "Service"
      [] s = "1500.00" -> "1500"
      [] s = "3000.00" -> "3000"
      [] s = "Shipping" -> "Shipping"
      [] s = "25.00" -> "25"
      [] s = "TOTAL:" -> "TOTAL"
      [] s = "Thank" -> "Thank"
      [] s = "you" -> "you"
      [] s = "for" -> "for"
      [] s = "your" -> "your"
      [] s = "business" -> "business"
      [] s = "Refund" -> "Refund"
      [] s = "-1" -> "-1"
      [] s = "50.00" -> "50"
      [] s = "-50.00" -> "-50"
      [] s = "Item" -> "Item"
      [] s = "Qty" -> "Qty"
      [] s = "Price" -> "Price"
      [] s = "Total" -> "Total"
      [] s = "Invoice" -> "Invoice"
      [] s = "INV-2024-001" -> "INV-2024-001"
      [] s = "Number:" -> "Number"
      [] s = "2024-001" -> "2024-001"
      [] s = "Vendor:" -> "Vendor"
      [] s = "Acme" -> "Acme"
      [] s = "Corp" -> "Corp"
      [] s = "Date:" -> "Date"
      [] s = "January" -> "January"
      [] s = "15," -> "15"
      [] s = "2024" -> "2024"
      [] s = "INVOICE" -> "INVOICE"
      [] s = "Due" -> "Due"
      [] s = "02/30/2024" -> "02"
      [] s = "Ref" -> "Ref"
      [] s = "INV2024001" -> "INV2024001"
      [] s = "01/15/2024" -> "01"
      [] s = "0" -> "0"
      [] OTHER -> ""

\* the characters of [A-Za-z&,\.] that s starts with
VendorChars(s) ==
    CASE s = "Widget" -> "Widget"
      [] s = "Gadget" -> "Gadget"
      [] s = "x" -> "x"
      [] s = "Service" -> "Service"
      [] s = "Shipping" -> "Shipping"
      [] s = "TOTAL:" -> "TOTAL"
      [] s = "Thank" -> "Thank"
      [] s = "you" -> "you"
      [] s = "for" -> "for"
      [] s = "your" -> "your"
      [] s = "business" -> "business"
      [] s = "Refund" -> "Refund"
      [] s = "Item" -> "Item"
      [] s = "Qty" -> "Qty"
      [] s = "Price" -> "Price"
      [] s = "Total" -> "Total"
      [] s = "Invoice" -> "Invoice"
      [] s = "INV-2024-001" -> "INV"
      [] s = "Number:" -> "Number"
      [] s = "Vendor:" -> "Vendor"
      [] s = "Acme" -> "Acme"
      [] s = "Corp" -> "Corp"
      [] s = "Date:" -> "Date"
      [] s = "January" -> "January"
      [] s = "INVOICE" -> "INVOICE"
      [] s = "Due" -> "Due"
      [] s = "Ref" -> "Ref"
      [] s = "INV2024001" -> "INV"
      [] OTHER -> ""

\* the letters [A-Za-z]+ that s ends with
AlphaSuffix(s) ==
    CASE s = "Widget" -> "Widget"
      [] s = "Gadget" -> "Gadget"
      [] s = "x" -> "x"
      [] s = "Service" -> "Service"
      [] s = "Shipping" -> "Shipping"
      [] s = "Thank" -> "Thank"
      [] s = "you" -> "you"
      [] s = "for" -> "for"
      [] s = "your" -> "your"
      [] s = "business" -> "business"
      [] s = "Refund" -> "Refund"
      [] s = "Item" -> "Item"
      [] s = "Qty" -> "Qty"
      [] s = "Price" -> "Price"
      [] s = "Total" -> "Total"
      [] s = "Invoice" -> "Invoice"
      [] s = "Acme" -> "Acme"
      [] s = "Corp" -> "Corp"
      [] s = "January" -> "January"
      [] s = "INVOICE" -> "INVOICE"
      [] s = "Due" -> "Due"
      [] s = "Ref" -> "Ref"
      [] OTHER -> ""

\* group 1 of INV[-\s]*([0-9]{4}[-\s]*[0-9]+) searched in s, "" without match
InvSearch3(s) ==
    CASE s = "INV-2024-001" -> "2024-001"
      [] s = "INV2024001" -> "2024001"
      [] OTHER -> ""

\* group 1 of INV[-\s]*([0-9\-]+) searched in s, "" without match
InvSearch4(s) ==
    CASE s = "INV-2024-001" -> "2024-001"
      [] s = "INV2024001" -> "2024001"
      [] OTHER -> ""

\* group 0 of INV[-\s]*([0-9]{4}[-\s]*[0-9]+) searched in s, blanks replaced by '-'
InvGroup0(s) ==
    CASE s = "INV-2024-001" -> "INV-2024-001"
      [] OTHER -> ""

\* group 1 of (\d{1,2}[/-]\d{1,2}[/-]\d{4}) searched in s, "" without match
NumDateSearch(s) ==
    CASE s = "02/30/2024" -> "02/30/2024"
      [] s = "01/15/2024" -> "01/15/2024"
      [] OTHER -> ""

\* the four digits \d{4} matches at the start of s, "" without match
YearPrefix(s) ==
    CASE s = "1250.00" -> "1250"
      [] s = "1500.00" -> "1500"
      [] s = "3000.00" -> "3000"
      [] s = "2024-001" -> "2024"
      [] s = "2024" -> "2024"
      [] OTHER -> ""

\* s.split(':', 1)[1].strip(), "" when s has no colon
AfterColon(s) ==
    CASE s = "Date: 2024-01-15" -> "2024-01-15"
      [] OTHER -> ""

\* datetime.strptime(s, fmt) for the first of the seven formats that parses,
\* as an ISO date; "" when none parses
Strptime(s) ==
    CASE s = "01/15/2024" -> "2024-01-15"
      [] s = "January 15, 1250" -> "1250-01-15"
      [] s = "January 15, 1500" -> "1500-01-15"
      [] s = "January 15, 3000" -> "3000-01-15"
      [] s = "January 15, 2024" -> "2024-01-15"
      [] s = "2024-01-15" -> "2024-01-15"
      [] OTHER -> ""

\* datetime.strptime(s, fmt) for '%B %d, %Y' then '%b %d, %Y'; "" when
\* neither parses
StrptimeMonth(s) ==
    CASE s = "January 15, 1250" -> "1250-01-15"
      [] s = "January 15, 1500" -> "1500-01-15"
      [] s = "January 15, 3000" -> "3000-01-15"
      [] s = "January 15, 2024" -> "2024-01-15"
      [] OTHER -> ""

\* the literals the parser tests with `in` that occur in s
Substrings(s) ==
    CASE s = "$50.00" -> {"$"}
      [] s = "total:" -> {"total", ":"}
      [] s = "$1,350.00" -> {"$"}
      [] s = "item" -> {"item"}
      [] s = "qty" -> {"qty"}
      [] s = "price" -> {"price"}
      [] s = "total" -> {"total"}
      [] s = "invoice" -> {"invoice", "inv"}
      [] s = "#:" -> {":"}
      [] s = "inv-2024-001" -> {"inv"}
      [] s = "number:" -> {"number", ":"}
      [] s = "vendor:" -> {"vendor", ":"}
      [] s = "date:" -> {"date", ":"}
      [] s = "inv2024001" -> {"inv"}
      [] s = "item name" -> {"item", "name"}
      [] s = "quantity" -> {"quantity"}
      [] s = "unit price" -> {"price", "unit"}
      [] s = "total price" -> {"price", "total"}
      [] s = "description" -> {"description"}
      [] s = "amount" -> {"amount"}
      [] s = "$125.00" -> {"$"}
      [] s = "$1,250.00" -> {"$"}
      [] s = "$100.00" -> {"$"}
      [] s = "$1.00" -> {"$"}
      [] s = "-$50.00" -> {"$"}
      [] s = "invoice number:" -> {"invoice", "number", "inv", ":"}
      [] s = "invoice date:" -> {"invoice", "date", "inv", ":"}
      [] s = "inv-001" -> {"inv"}
      [] s = "abc supplies co." -> {"abc", "supplies"}
      [] s = "vendor" -> {"vendor"}
      [] s = "date: 2024-01-15" -> {"date", ":"}
      [] s = "bill to:" -> {":"}
      [] s = "Invoice Number:" -> {":"}
      [] s = "Vendor:" -> {":"}
      [] s = "Invoice Date:" -> {":"}
      [] s = "Date: 2024-01-15" -> {":"}
      [] s = "Bill To:" -> {":"}
      [] OTHER -> {}

\* float(s), in hundredths; None for ValueError
ParseFloat(s) ==
    CASE s = "10" -> <<1000>>
      [] s = "125.00" -> <<12500>>
      [] s = "1250.00" -> <<125000>>
      [] s = "2" -> <<200>>
      [] s = "50.00" -> <<5000>>
      [] s = "1500.00" -> <<150000>>
      [] s = "3000.00" -> <<300000>>
      [] s = "25.00" -> <<2500>>
      [] s = "1350.00" -> <<135000>>
      [] s = "-1" -> <<-100>>
      [] s = "-50.00" -> <<-5000>>
      [] s = "15" -> <<1500>>
      [] s = "2024" -> <<202400>>
      [] s = "0" -> <<0>>
      [] s = "1000" -> <<100000>>
      [] s = "-5" -> <<-500>>
      [] s = "200" -> <<20000>>
      [] s = "100.00" -> <<10000>>
      [] s = "1.00" -> <<100>>
      [] OTHER -> <<>>

\* float of what \$?([\d,]+\.?\d*) captures at the start of s, commas removed;
\* None without match
AmountCapture(s) ==
    CASE s = "10" -> <<1000>>
      [] s = "125.00" -> <<12500>>
      [] s = "1250.00" -> <<125000>>
      [] s = "2" -> <<200>>
      [] s = "$50.00" -> <<5000>>
      [] s = "1500.00" -> <<150000>>
      [] s = "3000.00" -> <<300000>>
      [] s = "25.00" -> <<2500>>
      [] s = "$1,350.00" -> <<135000>>
      [] s = "50.00" -> <<5000>>
      [] s = "2024-001" -> <<202400>>
      [] s = "15," -> <<1500>>
      [] s = "2024" -> <<202400>>
      [] s = "02/30/2024" -> <<200>>
      [] s = "01/15/2024" -> <<100>>
      [] s = "0" -> <<0>>
      [] OTHER -> <<>>

\* s.replace('.', '').replace(',', '').isdigit()
IsDigits(s) ==
    s \in {"10", "2", "1000", "1.2.3", "200"}

\* s is \d{1,2},
IsDayComma(s) ==
    s \in {"15,"}

\* s.endswith('.pdf')
EndsWithPdf(s) ==
    s \in {"invoice.pdf"}

\* s.startswith('INV')
StartsWithINV(s) ==
    s \in {"INV-2024-001", "INVOICE", "INV2024001"}

\* s.startswith('INV-')
StartsWithInvDash(s) ==
    s \in {"INV-Widget", "INV-10", "INV-125", "INV-1250", "INV-Gadget",
            "INV-2", "INV-x", "INV-Service", "INV-1500", "INV-3000",
            "INV-Shipping", "INV-25", "INV-TOTAL", "INV-Thank", "INV-you",
            "INV-for", "INV-your", "INV-business", "INV-Refund", "INV--1",
            "INV-50", "INV--50", "INV-Item", "INV-Qty", "INV-Price",
            "INV-Total", "INV-Invoice", "INV-2024-001", "INV-Number",
            "INV-Vendor", "INV-Acme", "INV-Corp", "INV-Date", "INV-January",
            "INV-15", "INV-2024", "INV-Due", "INV-02", "INV-Ref", "INV-01",
            "INV-0", "INV-2024001", "INV-001", "INV-0f8fad5b"}

\* s.startswith('date')
StartsWithDate(s) ==
    s \in {"date: 2024-01-15"}

\* re.match(r'[A-Z0-9\-]+', s)
MatchesUpperAlnum(s) ==
    s \in {"Item Name", "Quantity", "Unit Price", "Total Price", "Item",
            "Qty", "Total", "Description", "Amount", "Widget", "10",
            "Gadget", "2", "Bolt", "1000", "Credit", "-$50.00", "Valve",
            "1.2.3", "Nut", "-5", "Washer", "200", "Invoice Number:",
            "2024-001", "Vendor:", "Acme Corp", "INV-2024-001",
            "Invoice Date:", "January 15, 2024", "Invoice", "INV-001",
            "ABC Supplies Co.", "Vendor", "Date: 2024-01-15", "Bill To:",
            "Customer"}

\* re.match(r'INV[-\s]*[0-9\-]+', s, re.IGNORECASE)
MatchesInvCell(s) ==
    s \in {"INV-2024-001", "INV-001"}

----------------------------------------------------------------------------
(* app/models/anomaly.py *)

PRICE_INCREASE == "price_increase"
QUANTITY_DEVIATION == "quantity_deviation"
NEW_ITEM == "new_item"
AMOUNT_DEVIATION == "amount_deviation"

\* AnomalyDetail(type, item_name=None, severity, description).  The description
\* is the f-string's fixed wording; the numbers it interpolates are left out.
AnomalyDetail(type, item_name, severity, description) ==
    [type |-> type, item_name |-> item_name, severity |-> severity,
     description |-> description]

\* Field(ge=0, le=100) on AnomalyDetail.severity and AnomalyResult.risk_score:
\* pydantic raises ValidationError outside the range.
FieldInRange(v) == v >= 0 /\ v <= 100

----------------------------------------------------------------------------
(* AnomalyService._calculate_risk_score *)

_calculate_risk_score_round(anomalies) ==
    IF anomalies = <<>> THEN 0
    ELSE LET n == Len(anomalies)
             total_severity == SumSeq([i \in 1..Len(anomalies) |-> anomalies[i].severity])
         IN Min(100, (2 * total_severity * (9 + n) + 10 * n) \div (20 * n))

_calculate_risk_score_noamp(anomalies) ==
    IF anomalies = <<>> THEN 0
    ELSE LET n == Len(anomalies)
             total_severity == SumSeq([i \in 1..Len(anomalies) |-> anomalies[i].severity])
         IN Min(100, total_severity \div (n * n))

_calculate_risk_score(anomalies) ==
    IF anomalies = <<>> THEN 0
    ELSE LET n == Len(anomalies)
             total_severity == SumSeq([i \in 1..Len(anomalies) |-> anomalies[i].severity])
             \* base_score * multiplier = (total_severity / n) * ((9 + n) / 10)
         IN Min(100, Trunc(total_severity * (9 + n), 10 * n))

----------------------------------------------------------------------------
(* app/models/invoice.py *)

\* an InvoiceItem as stored (after __init__)
Item(name, quantity, unit_price, total_price) ==
    [name |-> name, quantity |-> quantity, unit_price |-> unit_price,
     total_price |-> total_price]

\* InvoiceItem(name=..., quantity=..., unit_price=..., total_price=...):
\* __init__ clamps a negative quantity to 0 and replaces a falsy total_price
\* by round(quantity * unit_price, 2)
InvoiceItem(name, quantity, unit_price, total_price) ==
    LET qty == IF quantity < 0 THEN 0 ELSE quantity
    IN Item(name, qty, unit_price,
            IF total_price = 0 THEN RoundHalfEven(qty * unit_price, 100)
            ELSE total_price)

ParsedInvoice(vendor_name, invoice_number, invoice_date, total_amount, items, currency) ==
    [vendor_name |-> vendor_name, invoice_number |-> invoice_number,
     invoice_date |-> invoice_date, total_amount |-> total_amount,
     items |-> items, currency |-> currency]

\* Invoice(id=..., parsed_data=..., uploaded_at=...): the other fields take
\* their defaults
Invoice(id, parsed_data, uploaded_at) ==
    [id |-> id, parsed_data |-> parsed_data, uploaded_at |-> uploaded_at,
     is_suspicious |-> FALSE, risk_score |-> None,
     anomaly_explanation |-> None,
     submitted_to_erpnext |-> FALSE, erpnext_invoice_name |-> None]

----------------------------------------------------------------------------
(* app/services/parser_service.py: what the renderers hand to the parser   *)
(*                                                                         *)
(* A text is [lines, nl]: lines is the sequence of its lines, a line the   *)
(* sequence of its words (line.split()); words are separated by one blank, *)
(* lines by "\n", and nl says whether the text ends with "\n".  A table is *)
(* a sequence of rows, a row a sequence of cells; "" is the empty cell     *)
(* (None and "" are both falsy wherever the parser looks at a cell).       *)

\* datetime.now()
NOW == "now"
\* str(uuid.uuid4())[:8]
UUID8 == "0f8fad5b"
\* the vendor name the parser starts from
DEFAULT_VENDOR == "ABC Supplies Co."

Text(lines, nl) == [lines |-> lines, nl |-> nl]

\* sub in s
Contains(s, sub) == sub \in Substrings(s)

\* sub in ' '.join(parts).lower(), for a literal sub without blank
AnyContains(parts, sub) == \E i \in 1..Len(parts) : Contains(Lower(parts[i]), sub)

\* sep.join(parts)
RECURSIVE Join(_, _)
Join(parts, sep) ==
    IF parts = <<>> THEN ""
    ELSE IF Len(parts) = 1 THEN parts[1]
    ELSE parts[1] \o sep \o Join(Tail(parts), sep)

\* the first string of ss that is not empty, "" when there is none: what
\* re.search finds first in reading order
FirstNonEmpty(ss) ==
    LET found == { i \in 1..Len(ss) : ss[i] # "" }
    IN IF found = {} THEN "" ELSE ss[MinOf(found)]

\* likewise for optional values
FirstSome(os) ==
    LET found == { i \in 1..Len(os) : os[i] # None }
    IN IF found = {} THEN None ELSE os[MinOf(found)]

RECURSIVE DropLeadingBlank(_)
DropLeadingBlank(lines) ==
    IF lines # <<>> /\ Head(lines) = <<>> THEN DropLeadingBlank(Tail(lines))
    ELSE lines

RECURSIVE DropTrailingBlank(_)
DropTrailingBlank(lines) ==
    IF lines # <<>> /\ lines[Len(lines)] = <<>>
    THEN DropTrailingBlank(SubSeq(lines, 1, Len(lines) - 1))
    ELSE lines

\* len(text.strip())
StrippedLen(lines) ==
    LET ls == DropTrailingBlank(DropLeadingBlank(lines))
        LineLen(l) == IF l = <<>> THEN 0
                      ELSE SumSeq([i \in 1..Len(l) |-> Len(l[i])]) + Len(l) - 1
    IN IF ls = <<>> THEN 0
       ELSE SumSeq([i \in 1..Len(ls) |-> LineLen(ls[i])]) + Len(ls) - 1

\* the words of a text in reading order, each with the white space in front
\* of it and the number of its line
RECURSIVE Tokens(_, _, _)
Tokens(lines, k, gap) ==
    IF k > Len(lines) THEN <<>>
    ELSE IF lines[k] = <<>> THEN Tokens(lines, k + 1, gap \o "\n")
    ELSE [i \in 1..Len(lines[k]) |->
             [word |-> lines[k][i], line |-> k,
              gap |-> IF i = 1 THEN gap ELSE " "]]
         \o Tokens(lines, k + 1, "\n")

Words(lines) == Flatten(lines)

----------------------------------------------------------------------------
(* ParserService._extract_from_text *)

\* what ([A-Za-z\s&,\.]+) captures from token j on, as the tokens it takes
RECURSIVE VendorRun(_, _)
VendorRun(toks, j) ==
    IF j > Len(toks) THEN <<>>
    ELSE LET chars == VendorChars(toks[j].word)
         IN IF chars = toks[j].word
            THEN <<toks[j]>> \o VendorRun(toks, j + 1)
            ELSE IF chars # "" THEN << [toks[j] EXCEPT !.word = chars] >>
            ELSE <<>>

\* the captured tokens as one string, .strip()ped
RECURSIVE JoinTokens(_)
JoinTokens(toks) ==
    IF toks = <<>> THEN ""
    ELSE IF Len(toks) = 1 THEN toks[1].word
    ELSE JoinTokens(SubSeq(toks, 1, Len(toks) - 1))
           \o toks[Len(toks)].gap \o toks[Len(toks)].word

\* lines 436-447: r'Vendor[:\s]+([A-Za-z\s&,\.]+)' matches at the first label
\* "Vendor:" that white space follows; the two other patterns leave the
\* default
VendorFromText(text) ==
    LET toks == Tokens(text.lines, 1, "")
        labels == { i \in 1..Len(toks) :
                      /\ Lower(toks[i].word) = "vendor:"
                      /\ (i < Len(toks) \/ toks[i].line < Len(text.lines) \/ text.nl) }
    IN IF labels = {} THEN DEFAULT_VENDOR
       ELSE JoinTokens(VendorRun(toks, MinOf(labels) + 1))

\* what r'Invoice\s*#?[:\s]*([A-Z0-9\-]+)' captures behind the word
\* "Invoice" at position i, "" when it does not match there
InvoiceCaptureAt(ws, i) ==
    LET j == IF i + 1 <= Len(ws) /\ ws[i + 1] \in {"#", "#:", ":"}
             THEN i + 2 ELSE i + 1
    IN IF Lower(ws[i]) = "invoice" /\ j <= Len(ws) THEN AlnumPrefix(ws[j]) ELSE ""

\* lines 460-466
NormalizeInvoiceNumber(inv_num) ==
    IF ~StartsWithINV(inv_num) THEN "INV-" \o inv_num ELSE inv_num

\* lines 449-471.  The second pattern (Invoice\s+Number...) matches only
\* where the first one does, so it never decides.
InvoiceNumberFromText(ws) ==
    LET first == FirstNonEmpty([i \in 1..Len(ws) |-> InvoiceCaptureAt(ws, i)])
        third == FirstNonEmpty([i \in 1..Len(ws) |-> InvSearch3(ws[i])])
        fourth == FirstNonEmpty([i \in 1..Len(ws) |-> InvSearch4(ws[i])])
    IN IF first # "" THEN NormalizeInvoiceNumber(first)
       ELSE IF third # "" THEN NormalizeInvoiceNumber(third)
       ELSE IF fourth # "" THEN NormalizeInvoiceNumber(fourth)
       ELSE "INV-" \o UUID8

\* ([A-Za-z]+\s+\d{1,2},\s+\d{4}) at the words i, i+1, i+2; whole says that
\* the letters have to begin the word i (the pattern continues a label)
MonthDateAt(ws, i, whole) ==
    IF /\ i + 2 <= Len(ws)
       /\ AlphaSuffix(ws[i]) # ""
       /\ whole => AlphaSuffix(ws[i]) = ws[i]
       /\ IsDayComma(ws[i + 1])
       /\ YearPrefix(ws[i + 2]) # ""
    THEN AlphaSuffix(ws[i]) \o " " \o ws[i + 1] \o " " \o YearPrefix(ws[i + 2])
    ELSE ""

\* (\d{1,2}[/-]\d{1,2}[/-]\d{4}) in the word i
NumDateAt(ws, i) == IF i <= Len(ws) THEN NumDateSearch(ws[i]) ELSE ""

IsLabel(ws, i, labels) == i <= Len(ws) /\ Lower(ws[i]) \in labels

\* the date string the k-th of the six date_patterns captures at word i
DatePatternAt(ws, k, i) ==
    LET invoice_date == IsLabel(ws, i, {"invoice"})
                          /\ IsLabel(ws, i + 1, {"date", "date:"})
        date == IsLabel(ws, i, {"date", "date:"})
    IN CASE k = 1 -> IF invoice_date THEN MonthDateAt(ws, i + 2, TRUE) ELSE ""
         [] k = 2 -> IF invoice_date THEN NumDateAt(ws, i + 2) ELSE ""
         [] k = 3 -> IF date THEN MonthDateAt(ws, i + 1, TRUE) ELSE ""
         [] k = 4 -> IF date THEN NumDateAt(ws, i + 1) ELSE ""
         [] k = 5 -> MonthDateAt(ws, i, FALSE)
         [] k = 6 -> NumDateAt(ws, i)

\* lines 473-511: the first pattern whose first match parses gives the date
DateFromText(ws) ==
    LET strptime(k) ==
            LET date_str == FirstNonEmpty([i \in 1..Len(ws) |-> DatePatternAt(ws, k, i)])
            IN IF date_str = "" THEN "" ELSE Strptime(date_str)
        parsing == { k \in 1..6 : strptime(k) # "" }
    IN IF parsing = {} THEN NOW ELSE strptime(MinOf(parsing))

Falsy(o) == o = None \/ o = Some(0)

\* NumbersByPosition that always reads two numbers as unit price and total
NumbersByPositionPriceFirst(numbers) ==
    IF Len(numbers) >= 3
    THEN [qty |-> Some(numbers[1]), unit_price |-> Some(numbers[2]),
          total_price |-> Some(numbers[3]), skip |-> FALSE]
    ELSE IF Len(numbers) = 2
    THEN [qty |-> IF numbers[1] > 0
                  THEN Some(10 * RoundHalfEven(10 * numbers[2], numbers[1]))
                  ELSE None,
          unit_price |-> Some(numbers[1]),
          total_price |-> Some(numbers[2]), skip |-> FALSE]
    ELSE IF numbers[1] > U(100)
         THEN [qty |-> None, unit_price |-> None,
               total_price |-> Some(numbers[1]), skip |-> TRUE]
         ELSE [qty |-> Some(numbers[1]), unit_price |-> None,
               total_price |-> None, skip |-> FALSE]

\* lines 560-583: quantity, unit price and total as the positions of the
\* numbers (at least one) of a line give them; skip for `continue`
NumbersByPosition(numbers) ==
    IF Len(numbers) >= 3
    THEN [qty |-> Some(numbers[1]), unit_price |-> Some(numbers[2]),
          total_price |-> Some(numbers[3]), skip |-> FALSE]
    ELSE IF Len(numbers) = 2
    THEN IF numbers[1] < U(1000)
         THEN [qty |-> Some(numbers[1]), unit_price |-> Some(numbers[2]),
               total_price |-> Some(RoundHalfEven(numbers[1] * numbers[2], 100)),
               skip |-> FALSE]
         ELSE [qty |-> IF numbers[1] > 0
                       THEN Some(10 * RoundHalfEven(10 * numbers[2], numbers[1]))
                       ELSE None,
               unit_price |-> Some(numbers[1]),
               total_price |-> Some(numbers[2]), skip |-> FALSE]
    ELSE IF numbers[1] > U(100)
         THEN [qty |-> None, unit_price |-> None,
               total_price |-> Some(numbers[1]), skip |-> TRUE]
         ELSE [qty |-> Some(numbers[1]), unit_price |-> None,
               total_price |-> None, skip |-> FALSE]

\* lines 560-607: the item of a line with the name item_name and the numbers
\* numbers (at least one), as a list of no or one item
TextItem(item_name, numbers) ==
    LET Checked(qty, unit_price, total_price) ==
            IF /\ ~Falsy(unit_price) /\ unit_price[1] > 0
               /\ ~Falsy(total_price) /\ total_price[1] > 0
            THEN << InvoiceItem(item_name, qty[1], unit_price[1], total_price[1]) >>
            ELSE <<>>
        Derived(by_position) ==
            LET qty == by_position.qty
                derive_price == Falsy(by_position.unit_price)
                                  /\ ~Falsy(by_position.total_price)
                derive_total == Falsy(by_position.total_price)
                                  /\ ~Falsy(by_position.unit_price)
            IN IF by_position.skip THEN <<>>
               ELSE IF ~(~Falsy(qty) /\ qty[1] > 0) THEN <<>>
               ELSE Checked(qty,
                            IF derive_price
                            THEN Some(RoundHalfEven(100 * by_position.total_price[1], qty[1]))
                            ELSE by_position.unit_price,
                            IF derive_total
                            THEN Some(RoundHalfEven(qty[1] * by_position.unit_price[1], 100))
                            ELSE by_position.total_price)
    IN Derived(NumbersByPosition(numbers))

\* lines 522-607, one iteration of the loop over the lines
TextLineItems(words) ==
    LET toks == [i \in 1..Len(words) |->
                    [word |-> words[i], clean_word |-> StripMoney(words[i])]]
        numbers == LET nums == SelectSeq(toks, LAMBDA t : ParseFloat(t.clean_word) # None)
                   IN [i \in 1..Len(nums) |-> ParseFloat(nums[i].clean_word)[1]]
        item_name_parts ==
            LET parts == SelectSeq(toks, LAMBDA t :
                            /\ ParseFloat(t.clean_word) = None
                            /\ t.clean_word # ""
                            /\ Lower(t.clean_word) \notin {"x", "at", "each", "per", "unit"})
            IN [i \in 1..Len(parts) |-> parts[i].word]
        header == \E h \in {"item", "description", "qty", "quantity", "price",
                            "amount", "total"} : AnyContains(words, h)
    IN IF words = <<>> THEN <<>>
       ELSE IF header /\ (AnyContains(words, "item") \/ AnyContains(words, "description"))
       THEN <<>>
       ELSE IF Len(words) < 2 THEN <<>>
       ELSE IF ~(Len(item_name_parts) >= 1 /\ Len(numbers) >= 1) THEN <<>>
       ELSE IF \E skip \in {"total", "subtotal", "tax", "discount", "item",
                            "description"} : AnyContains(item_name_parts, skip)
       THEN <<>>
       ELSE TextItem(Join(item_name_parts, " "), numbers)

\* lines 609-623: the amount r'TOTAL[:\s]*\$?([\d,]+\.?\d*)' finds, None
\* when it does not match
TotalFromText(ws) ==
    FirstSome([i \in 1..Len(ws) |->
        IF Lower(ws[i]) \in {"total", "total:"} /\ i + 1 <= Len(ws)
        THEN AmountCapture(ws[i + 1]) ELSE None])

_extract_from_text(text) ==
    LET ws == Words(text.lines)
        Result(items, total) ==
            Some(ParsedInvoice(VendorFromText(text), InvoiceNumberFromText(ws),
                               DateFromText(ws),
                               IF total # None THEN total[1]
                               ELSE SumSeq([i \in 1..Len(items) |-> items[i].total_price]),
                               items, "USD"))
    IN IF StrippedLen(text.lines) < 50 THEN None
       ELSE Result(Flatten([k \in 1..Len(text.lines) |->
                               TextLineItems(text.lines[k])]),
                   TotalFromText(ws))

----------------------------------------------------------------------------
(* ParserService._extract_from_tables *)

\* what a parser function did: it returned value, or an exception left it
Return(value) == [raised |-> FALSE, value |-> value]
Raise(error) == [raised |-> TRUE, error |-> error]

\* the greatest element of a non-empty set of integers
MaxOf(S) == CHOOSE x \in S : \A y \in S : x >= y

\* lines 128-145: the invoice number the three patterns find in full_text,
\* None when none matches
InvoiceNumberFromFullText(ws) ==
    LET NumberAt(i) ==
            IF /\ i + 2 <= Len(ws)
               /\ Lower(ws[i]) = "invoice"
               /\ Lower(ws[i + 1]) \in {"number", "number:"}
            THEN AlnumPrefix(ws[i + 2]) ELSE ""
        first == FirstNonEmpty([i \in 1..Len(ws) |-> NumberAt(i)])
        second == FirstNonEmpty([i \in 1..Len(ws) |-> InvoiceCaptureAt(ws, i)])
        third == FirstNonEmpty([i \in 1..Len(ws) |-> InvSearch3(ws[i])])
    IN IF first # "" THEN Some(NormalizeInvoiceNumber(first))
       ELSE IF second # "" THEN Some(NormalizeInvoiceNumber(second))
       ELSE IF third # "" THEN Some(NormalizeInvoiceNumber(third))
       ELSE None

\* lines 147-164: the date the two patterns find in full_text, None when
\* none matches and parses
DateFromFullText(ws) ==
    LET strptime(k) ==
            LET date_str == FirstNonEmpty([i \in 1..Len(ws) |->
                               DatePatternAt(ws, IF k = 1 THEN 1 ELSE 3, i)])
            IN IF date_str = "" THEN "" ELSE StrptimeMonth(date_str)
    IN IF strptime(1) # "" THEN Some(strptime(1))
       ELSE IF strptime(2) # "" THEN Some(strptime(2))
       ELSE None

\* the branch of lines 200-213 a column with this (lower-case) header takes
ColumnKind(header) ==
    LET Kind(found) ==
            IF "item" \in found \/ "name" \in found THEN "name"
            ELSE IF "quantity" \in found \/ "qty" \in found THEN "qty"
            ELSE IF "unit" \in found \/ ("price" \in found /\ "total" \notin found)
            THEN "price"
            ELSE "other"
    IN Kind(Substrings(header))

\* line 229: the header of a total column
TotalHeader(header) ==
    LET Is(found) == "total" \in found /\ ("amount" \in found \/ "price" \in found)
    IN Is(Substrings(Lower(header)))

\* lines 238-255: the total looked for in the columns from i on, when the
\* total column gave none; float() of line 245 is outside every try
RECURSIVE OtherTotal(_, _, _)
OtherTotal(row, n, i) ==
    IF i > n THEN Return(None)
    ELSE LET cell_value == Strip(row[i])
             potential_total == ParseFloat(StripMoney(cell_value))
             Try == IF /\ StripMoney(cell_value) # ""
                       /\ potential_total # None
                       /\ potential_total[1] > 0
                    THEN Return(potential_total)
                    ELSE OtherTotal(row, n, i + 1)
         IN IF cell_value = "" THEN OtherTotal(row, n, i + 1)
            ELSE IF Contains(cell_value, "$") THEN Try
            ELSE IF IsDigits(cell_value)
                 THEN IF ParseFloat(StripMoney(cell_value)) = None
                      THEN Raise("ValueError")
                      ELSE IF ParseFloat(StripMoney(cell_value))[1] > U(100)
                      THEN Try
                      ELSE OtherTotal(row, n, i + 1)
            ELSE OtherTotal(row, n, i + 1)

\* the outcomes of the iterations of a loop, put together: the exception of
\* an iteration leaves the loop, otherwise the lists are appended in order
Gather(outcomes) ==
    IF \E k \in 1..Len(outcomes) : outcomes[k].raised THEN Raise("ValueError")
    ELSE Return(Flatten([k \in 1..Len(outcomes) |-> outcomes[k].value]))

\* TableRowItems that stores the total the row supplied, when it supplies one
TableRowItemsKeepingTotal(headers, row) ==
    LET n == Min(Len(headers), Len(row))
        cell_value(i) == Strip(row[i])
        \* the last column that sets a variable decides, the first total
        \* column that parses ends the search (0: no column)
        Last(cols) == IF cols = {} THEN 0 ELSE MaxOf(cols)
        First(cols) == IF cols = {} THEN 0 ELSE MinOf(cols)
        Name(col) == IF col = 0 THEN "" ELSE cell_value(col)
        Qty(col) == IF col = 0 THEN None ELSE ParseFloat(cell_value(col))
        Price(col) == IF col = 0 THEN None
                      ELSE ParseFloat(StripMoney(cell_value(col)))
        \* lines 222-255
        Total(col) == IF col = 0 THEN OtherTotal(row, n, 1)
                      ELSE Return(ParseFloat(StripMoney(cell_value(col))))
        \* lines 257-286
        RowItem(item_name, qty, price, found) ==
            LET Built(unit_price) ==
                    Return(<< InvoiceItem(item_name, qty[1], unit_price[1],
                                 IF found.value # None THEN found.value[1]
                                 ELSE RoundHalfEven(qty[1] * unit_price[1], 100)) >>)
                Priced(total_price) ==
                    IF (Falsy(price) \/ price[1] <= 0)
                       /\ ~(~Falsy(total_price) /\ ~Falsy(qty))
                    THEN Return(<<>>)
                    ELSE Built(IF Falsy(price) \/ price[1] <= 0
                               THEN Some(RoundHalfEven(100 * total_price[1], qty[1]))
                               ELSE price)
            IN IF row = <<>> \/ Len(row) < 2 THEN Return(<<>>)
               ELSE IF item_name = "" THEN Return(<<>>)
               ELSE IF Lower(item_name) \in {"item", "item name", "description",
                                            "product", "name"}
               THEN Return(<<>>)
               ELSE IF found.raised THEN found
               ELSE IF found.value = None /\ ~(~Falsy(qty) /\ ~Falsy(price))
               THEN Return(<<>>)
               ELSE IF Falsy(qty) \/ qty[1] <= 0 THEN Return(<<>>)
               ELSE Priced(IF found.value # None THEN found.value
                           ELSE Some(RoundHalfEven(qty[1] * price[1], 100)))
    IN RowItem(Name(Last({ i \in 1..n : ColumnKind(headers[i]) = "name" })),
            Qty(Last({ i \in 1..n : /\ ColumnKind(headers[i]) = "qty"
                                    /\ ParseFloat(cell_value(i)) # None })),
            Price(Last({ i \in 1..n :
                           /\ ColumnKind(headers[i]) = "price"
                           /\ ParseFloat(StripMoney(cell_value(i))) # None })),
            Total(First({ i \in 1..n :
                            /\ TotalHeader(headers[i])
                            /\ StripMoney(cell_value(i)) # ""
                            /\ ParseFloat(StripMoney(cell_value(i))) # None })))

\* lines 186-286, one iteration of the loop over the rows of an items table:
\* no or one item, or the exception
TableRowItems(headers, row) ==
    LET n == Min(Len(headers), Len(row))
        cell_value(i) == Strip(row[i])
        \* the last column that sets a variable decides, the first total
        \* column that parses ends the search (0: no column)
        Last(cols) == IF cols = {} THEN 0 ELSE MaxOf(cols)
        First(cols) == IF cols = {} THEN 0 ELSE MinOf(cols)
        Name(col) == IF col = 0 THEN "" ELSE cell_value(col)
        Qty(col) == IF col = 0 THEN None ELSE ParseFloat(cell_value(col))
        Price(col) == IF col = 0 THEN None
                      ELSE ParseFloat(StripMoney(cell_value(col)))
        \* lines 222-255
        Total(col) == IF col = 0 THEN OtherTotal(row, n, 1)
                      ELSE Return(ParseFloat(StripMoney(cell_value(col))))
        \* lines 257-286
        RowItem(item_name, qty, price, found) ==
            LET Built(unit_price) ==
                    Return(<< InvoiceItem(item_name, qty[1], unit_price[1],
                                 RoundHalfEven(qty[1] * unit_price[1], 100)) >>)
                Priced(total_price) ==
                    IF (Falsy(price) \/ price[1] <= 0)
                       /\ ~(~Falsy(total_price) /\ ~Falsy(qty))
                    THEN Return(<<>>)
                    ELSE Built(IF Falsy(price) \/ price[1] <= 0
                               THEN Some(RoundHalfEven(100 * total_price[1], qty[1]))
                               ELSE price)
            IN IF row = <<>> \/ Len(row) < 2 THEN Return(<<>>)
               ELSE IF item_name = "" THEN Return(<<>>)
               ELSE IF Lower(item_name) \in {"item", "item name", "description",
                                            "product", "name"}
               THEN Return(<<>>)
               ELSE IF found.raised THEN found
               ELSE IF found.value = None /\ ~(~Falsy(qty) /\ ~Falsy(price))
               THEN Return(<<>>)
               ELSE IF Falsy(qty) \/ qty[1] <= 0 THEN Return(<<>>)
               ELSE Priced(IF found.value # None THEN found.value
                           ELSE Some(RoundHalfEven(qty[1] * price[1], 100)))
    IN RowItem(Name(Last({ i \in 1..n : ColumnKind(headers[i]) = "name" })),
            Qty(Last({ i \in 1..n : /\ ColumnKind(headers[i]) = "qty"
                                    /\ ParseFloat(cell_value(i)) # None })),
            Price(Last({ i \in 1..n :
                           /\ ColumnKind(headers[i]) = "price"
                           /\ ParseFloat(StripMoney(cell_value(i))) # None })),
            Total(First({ i \in 1..n :
                            /\ TotalHeader(headers[i])
                            /\ StripMoney(cell_value(i)) # ""
                            /\ ParseFloat(StripMoney(cell_value(i))) # None })))

\* lines 172-286: the items of one table
TableItems(table) ==
    LET headers == [i \in 1..Len(table[1]) |-> Lower(table[1][i])]
        has_item_col == \E i \in 1..Len(headers) :
                           Contains(headers[i], "item") \/ Contains(headers[i], "name")
        has_qty_col == \E i \in 1..Len(headers) :
                          Contains(headers[i], "quantity") \/ Contains(headers[i], "qty")
    IN IF ~(has_item_col /\ has_qty_col) THEN Return(<<>>)
       ELSE Gather([k \in 1..(Len(table) - 1) |->
                       TableRowItems(headers, table[k + 1])])

\* sub in row_text
RowTextContains(row, sub) ==
    \E i \in 1..Len(row) : row[i] # "" /\ Contains(Lower(row[i]), sub)

\* the first of the cells (a set of positions) of the row that is not empty,
\* 0 if none
FirstCell(row, cells) ==
    LET found == { i \in cells : row[i] # "" }
    IN IF found = {} THEN 0 ELSE MinOf(found)

HasNext(row, i) == i + 1 <= Len(row) /\ row[i + 1] # ""

\* lines 294-321
RowInvoiceNumber(invoice_number, row) ==
    LET cell_str(i) == Strip(row[i])
        IsLabel_(i) ==
            LET Is(found) == "invoice" \in found /\ "number" \in found
            IN Is(Substrings(Lower(cell_str(i))))
        Accepts(i) ==
            IF IsLabel_(i)
            THEN /\ HasNext(row, i)
                 /\ \/ Contains(Lower(cell_str(i + 1)), "inv")
                    \/ MatchesUpperAlnum(cell_str(i + 1))
            ELSE MatchesInvCell(cell_str(i))
        \* lines 294-309, with the cell the loop breaks at (0: none)
        ByLabel(labelled) ==
            IF RowTextContains(row, "invoice") /\ RowTextContains(row, "number")
               /\ labelled # 0
            THEN IF IsLabel_(labelled) THEN cell_str(labelled + 1)
                 ELSE cell_str(labelled)
            ELSE invoice_number
        \* lines 311-321
        Standalone(by_label, standalone) ==
            IF (by_label = "" \/ (StartsWithInvDash(by_label) /\ Len(by_label) < 10))
               /\ standalone # 0
            THEN InvGroup0(cell_str(standalone))
            ELSE by_label
    IN Standalone(ByLabel(FirstCell(row, { i \in 1..Len(row) : Accepts(i) })),
                  FirstCell(row, { i \in 1..Len(row) : InvGroup0(cell_str(i)) # "" }))

\* lines 323-335
RowVendor(vendor_name, row) ==
    LET cell_str(i) == Strip(row[i])
        Labels(i) == Contains(Lower(cell_str(i)), "vendor") /\ HasNext(row, i)
        Names(i) ==
            LET Is(found) == "abc" \in found \/ "supplies" \in found
            IN Labels(i) \/ Is(Substrings(Lower(cell_str(i))))
        At(cell) ==
            IF RowTextContains(row, "vendor") /\ cell # 0
            THEN IF Labels(cell) THEN cell_str(cell + 1) ELSE cell_str(cell)
            ELSE vendor_name
    IN At(FirstCell(row, { i \in 1..Len(row) : Names(i) }))

\* lines 337-371.  invoice_date is set since line 170, so the loop over the
\* cells ends at the first label that has a date string, parsed or not.
RowDate(invoice_date, row) ==
    LET cell_str(i) == Strip(row[i])
        IsLabel_(i) ==
            \/ LET Is(found) == "invoice" \in found /\ "date" \in found
               IN Is(Substrings(Lower(cell_str(i))))
            \/ /\ StartsWithDate(Lower(cell_str(i)))
               /\ Contains(cell_str(i), ":")
        HasDateString(i) ==
            IsLabel_(i) /\ (HasNext(row, i) \/ Contains(cell_str(i), ":"))
        DateString(cell) ==
            IF cell = 0 THEN ""
            ELSE IF HasNext(row, cell) THEN cell_str(cell + 1)
            ELSE AfterColon(cell_str(cell))
        Parsed(cell, date) ==
            IF RowTextContains(row, "invoice") /\ RowTextContains(row, "date")
               /\ cell # 0 /\ date # ""
            THEN date
            ELSE invoice_date
        At(cell) == Parsed(cell, Strptime(DateString(cell)))
    IN At(FirstCell(row, { i \in 1..Len(row) : HasDateString(i) }))

\* lines 289-390, one iteration of the loop over the first rows of a table.
\* The search of lines 373-390 needs invoice_date == datetime.now(), a later
\* reading of the clock than the one invoice_date may hold; it is not taken.
RowMetadata(meta, row) ==
    IF row = <<>> THEN meta
    ELSE [invoice_number |-> RowInvoiceNumber(meta.invoice_number, row),
          vendor_name |-> RowVendor(meta.vendor_name, row),
          invoice_date |-> RowDate(meta.invoice_date, row)]

RECURSIVE RowsMetadata(_, _)
RowsMetadata(meta, rows) ==
    IF rows = <<>> THEN meta
    ELSE RowsMetadata(RowMetadata(meta, Head(rows)), Tail(rows))

\* lines 172-390: the loop over the tables, metadata part
RECURSIVE TablesMetadata(_, _)
TablesMetadata(meta, tables) ==
    IF tables = <<>> THEN meta
    ELSE LET table == Head(tables)
         IN IF table = <<>> \/ Len(table) < 2
            THEN TablesMetadata(meta, Tail(tables))
            ELSE TablesMetadata(
                    RowsMetadata(meta, SubSeq(table, 1, Min(5, Len(table)))),
                    Tail(tables))

\* TotalFromTables in which the first row that states a total decides
TotalFromTablesFirst(tables) ==
    LET rows == Flatten(tables)
        Amount(row) ==
            LET HasAmount(i) == /\ Contains(row[i], "$")
                                /\ ParseFloat(StripMoney(row[i])) # None
                cell == FirstCell(row, { i \in 1..Len(row) : HasAmount(i) })
            IN IF RowTextContains(row, "total") /\ cell # 0
               THEN ParseFloat(StripMoney(row[cell])) ELSE None
        stating == { k \in 1..Len(rows) : Amount(rows[k]) # None }
    IN IF stating = {} THEN None ELSE Amount(rows[MinOf(stating)])

\* lines 395-411: the total a row of the tables states, None when no row has
\* one; the last row that states one decides
TotalFromTables(tables) ==
    LET rows == Flatten(tables)
        Amount(row) ==
            LET HasAmount(i) == /\ Contains(row[i], "$")
                                /\ ParseFloat(StripMoney(row[i])) # None
                cell == FirstCell(row, { i \in 1..Len(row) : HasAmount(i) })
            IN IF RowTextContains(row, "total") /\ cell # 0
               THEN ParseFloat(StripMoney(row[cell])) ELSE None
        stating == { k \in 1..Len(rows) : Amount(rows[k]) # None }
    IN IF stating = {} THEN None ELSE Amount(rows[MaxOf(stating)])

\* the value of an Optional, default for None
OrElse(o, default) == IF o # None THEN o[1] ELSE default

_extract_from_tables(tables, full_text) ==
    LET ws == Words(full_text.lines)
        \* lines 123-170
        from_text == [invoice_number |-> OrElse(InvoiceNumberFromFullText(ws),
                                                "INV-" \o UUID8),
                      vendor_name |-> DEFAULT_VENDOR,
                      invoice_date |-> OrElse(DateFromFullText(ws), NOW)]
        \* lines 392-423
        Result(items, meta, total) ==
            IF items.raised THEN items
            ELSE IF items.value # <<>>
            THEN Return(Some(ParsedInvoice(
                    meta.vendor_name, meta.invoice_number, meta.invoice_date,
                    IF total # None THEN total[1]
                    ELSE SumSeq([i \in 1..Len(items.value) |->
                                    items.value[i].total_price]),
                    items.value, "USD")))
            ELSE Return(None)
    IN Result(Gather([t \in 1..Len(tables) |->
                         IF tables[t] = <<>> \/ Len(tables[t]) < 2 THEN Return(<<>>)
                         ELSE TableItems(tables[t])]),
              TablesMetadata(from_text, tables),
              TotalFromTables(tables))

----------------------------------------------------------------------------
(* ParserService._mock_parse, _parse_pdf, parse_invoice *)

_mock_parse ==
    ParsedInvoice(DEFAULT_VENDOR, "INV-" \o UUID8, NOW, U(1250),
                  << InvoiceItem("Item 1", U(5), U(150), U(750)),
                     InvoiceItem("Item 2", U(10), U(50), U(500)) >>,
                  "USD")

\* lines 10-19: a document is read with the libraries libs that are installed
PDF_PARSING_AVAILABLE(libs) == libs.pdfplumber \/ libs.PyPDF2

\* what the document doc turns into under the two renderers:
\*   filename                   the name it was uploaded with
\*   libs                       which of pdfplumber and PyPDF2 can be imported
\*   pdfplumber.raises          whether PDF(...) or a page of it raises
\*   pdfplumber.tables, .lines  the tables and the text lines of the pages
\*   PyPDF2.raises, .text       likewise for PdfReader
Document(filename, libs, pdfplumber, PyPDF2) ==
    [filename |-> filename, libs |-> libs, pdfplumber |-> pdfplumber,
     PyPDF2 |-> PyPDF2]

\* lines 58-93, the try block
ParseWithPdfplumber(document) ==
    LET tables == document.pdfplumber.tables
        \* each page text is followed by "\n"
        full_text == Text(document.pdfplumber.lines, document.pdfplumber.lines # <<>>)
        \* lines 82-93, with what _extract_from_tables did
        Rest(from_tables) ==
            IF from_tables.raised THEN from_tables
            ELSE IF from_tables.value # None THEN from_tables
            ELSE IF full_text.lines # <<>> /\ StrippedLen(full_text.lines) >= 50
            THEN Return(_extract_from_text(full_text))
            ELSE Return(None)
    IN IF ~document.libs.pdfplumber THEN Raise("ImportError")
       ELSE IF document.pdfplumber.raises THEN Raise("Exception")
       ELSE Rest(IF tables # <<>> THEN _extract_from_tables(tables, full_text)
                 ELSE Return(None))

\* lines 95-112, the except block
ParseWithPyPDF2(document) ==
    IF ~document.libs.PyPDF2 THEN Return(None)
    ELSE IF document.PyPDF2.raises THEN Return(None)
    ELSE Return(_extract_from_text(document.PyPDF2.text))

_parse_pdf(document) ==
    LET Except(tried) == IF tried.raised THEN ParseWithPyPDF2(document) ELSE tried
    IN IF ~PDF_PARSING_AVAILABLE(document.libs) THEN Return(None)
       ELSE Except(ParseWithPdfplumber(document))

parse_invoice_no_mock(document) ==
    LET Parsed(parsed_data) ==
            IF EndsWithPdf(Lower(document.filename)) /\ ~parsed_data.raised
            THEN Return(parsed_data.value)
            ELSE Return(None)
    IN Parsed(_parse_pdf(document))

parse_invoice(document) ==
    LET Parsed(parsed_data) ==
            IF EndsWithPdf(Lower(document.filename)) /\ ~parsed_data.raised
               /\ parsed_data.value # None
            THEN Return(parsed_data.value)
            ELSE Return(Some(_mock_parse))
    IN Parsed(_parse_pdf(document))

----------------------------------------------------------------------------
(* InvoiceItem.__init__ on any keyword arguments (data).  A Python value    *)
(* is a record that carries its type: a str, a float (in hundredths; nan is *)
(* the float without value) or None.  data is a record whose domain is the  *)
(* set of the keywords given.                                               *)

PyStr(s) == [type |-> "str", value |-> s]
PyFloat(x) == [type |-> "float", value |-> x]
NAN == [type |-> "float", nan |-> TRUE]
PyNone == [type |-> "NoneType"]

IsNaN(v) == "nan" \in DOMAIN v

\* float(v): ValueError for a str that is no number, TypeError for None
float(v) ==
    CASE v.type = "float" -> Return(v)
      [] v.type = "str" -> IF ParseFloat(v.value) = None THEN Raise("ValueError")
                           ELSE Return(PyFloat(ParseFloat(v.value)[1]))
      [] OTHER -> Raise("TypeError")

\* a < b on floats: False when one of them is nan
Less(a, b) == ~IsNaN(a) /\ ~IsNaN(b) /\ a.value < b.value

\* round(a * b, 2) on floats
RoundedProduct(a, b) ==
    IF IsNaN(a) \/ IsNaN(b) THEN NAN
    ELSE PyFloat(RoundHalfEven(a.value * b.value, 100))

\* not v
Not(v) ==
    CASE v.type = "float" -> ~IsNaN(v) /\ v.value = 0
      [] v.type = "str" -> v.value = ""
      [] OTHER -> TRUE

\* pydantic's validation of a field declared float: a float as it is, a str
\* that reads as a number converted, anything else rejected
FloatField(v) ==
    CASE v.type = "float" -> Return(v)
      [] v.type = "str" -> float(v)
      [] OTHER -> Raise("ValidationError")

\* InvoiceItem.__init__ that leaves a total_price of zero as it is
InvoiceItem__init__keeping_zero(data) ==
    LET Clamped(f) == IF f.raised THEN PyFloat(0)
                      ELSE IF Less(f.value, PyFloat(0)) THEN PyFloat(0)
                      ELSE f.value
        with_quantity ==
            IF "quantity" \in DOMAIN data
            THEN [data EXCEPT !.quantity = Clamped(float(data.quantity))]
            ELSE data
        recalculate ==
            /\ {"quantity", "unit_price"} \subseteq DOMAIN with_quantity
            /\ ~float(with_quantity.unit_price).raised
            /\ "total_price" \notin DOMAIN with_quantity
        validated ==
            IF recalculate
            THEN ("total_price" :>
                     RoundedProduct(with_quantity.quantity,
                                    float(with_quantity.unit_price).value))
                 @@ with_quantity
            ELSE with_quantity
    IN IF /\ {"name", "quantity", "unit_price", "total_price"}
               \subseteq DOMAIN validated
          /\ validated.name.type = "str"
          /\ ~FloatField(validated.quantity).raised
          /\ ~FloatField(validated.unit_price).raised
          /\ ~FloatField(validated.total_price).raised
       THEN Return([name |-> validated.name.value,
                    quantity |-> FloatField(validated.quantity).value,
                    unit_price |-> FloatField(validated.unit_price).value,
                    total_price |-> FloatField(validated.total_price).value])
       ELSE Raise("ValidationError")

\* InvoiceItem.__init__ (lines 14-38): the item with its fields as floats, or
\* the ValidationError of BaseModel.__init__
InvoiceItem__init__(data) ==
    LET \* lines 17-26
        Clamped(f) == IF f.raised THEN PyFloat(0)
                      ELSE IF Less(f.value, PyFloat(0)) THEN PyFloat(0)
                      ELSE f.value
        with_quantity ==
            IF "quantity" \in DOMAIN data
            THEN [data EXCEPT !.quantity = Clamped(float(data.quantity))]
            ELSE data
        \* lines 29-36: float(data['unit_price']) may raise, which is passed
        recalculate ==
            /\ {"quantity", "unit_price"} \subseteq DOMAIN with_quantity
            /\ ~float(with_quantity.unit_price).raised
            /\ \/ "total_price" \notin DOMAIN with_quantity
               \/ Not(with_quantity.total_price)
        validated ==
            IF recalculate
            THEN ("total_price" :>
                     RoundedProduct(with_quantity.quantity,
                                    float(with_quantity.unit_price).value))
                 @@ with_quantity
            ELSE with_quantity
    IN \* line 38: all four fields are required
       IF /\ {"name", "quantity", "unit_price", "total_price"}
               \subseteq DOMAIN validated
          /\ validated.name.type = "str"
          /\ ~FloatField(validated.quantity).raised
          /\ ~FloatField(validated.unit_price).raised
          /\ ~FloatField(validated.total_price).raised
       THEN Return([name |-> validated.name.value,
                    quantity |-> FloatField(validated.quantity).value,
                    unit_price |-> FloatField(validated.unit_price).value,
                    total_price |-> FloatField(validated.total_price).value])
       ELSE Raise("ValidationError")

\* InvoiceItem.calculated_total
calculated_total(item) == RoundedProduct(item.quantity, item.unit_price)

----------------------------------------------------------------------------
(* ParserService.parse_invoice_from_json.  A JSON object is a record whose *)
(* domain is the set of its keys.  The values of vendor_name,              *)
(* invoice_number, invoice_date, total_amount and currency are Python      *)
(* values with their type; the items are objects with numbers for          *)
(* quantity, unit_price and total_price.                                   *)

\* datetime.fromisoformat that takes what it cannot read for now
FromIsoformatOrNow(s) ==
    CASE s = "2024-01-15T10:00:00" -> Some("2024-01-15T10:00:00")
      [] s = "2024-02-15T00:00:00" -> Some("2024-02-15")
      [] s = "2024-02-15" -> Some("2024-02-15")
      [] OTHER -> Some(NOW)

\* datetime.fromisoformat(s): the datetime (a midnight is written as its
\* date, as the dates of the parser are); None for ValueError
FromIsoformat(s) ==
    CASE s = "2024-01-15T10:00:00" -> Some("2024-01-15T10:00:00")
      [] s = "2024-02-15T00:00:00" -> Some("2024-02-15")
      [] s = "2024-02-15" -> Some("2024-02-15")
      [] OTHER -> None

\* InvoiceItem(**item) that computes total_price anew in any case
ItemFromJsonRecalculated(item) ==
    IF {"name", "quantity", "unit_price"} \subseteq DOMAIN item
    THEN Return(InvoiceItem(item.name, item.quantity, item.unit_price, 0))
    ELSE Raise("ValidationError")

\* InvoiceItem(**item): pydantic rejects a missing name, quantity or
\* unit_price
ItemFromJson(item) ==
    IF {"name", "quantity", "unit_price"} \subseteq DOMAIN item
    THEN Return(InvoiceItem(item.name, item.quantity, item.unit_price,
                            IF "total_price" \in DOMAIN item
                            THEN item.total_price ELSE 0))
    ELSE Raise("ValidationError")

\* ParsedInvoice(...) of lines 724-731 on the values of the body: the
\* ValidationError (a ValueError) of a vendor_name, invoice_number or currency
\* that is no str and of a total_amount that is no number and does not read
\* as one
ValidatedInvoice(vendor_name, invoice_number, invoice_date, total_amount, items, currency) ==
    IF /\ vendor_name.type = "str"
       /\ invoice_number.type = "str"
       /\ ~FloatField(total_amount).raised
       /\ currency.type = "str"
    THEN Return(ParsedInvoice(vendor_name.value, invoice_number.value,
                              invoice_date,
                              FloatField(total_amount).value.value,
                              items, currency.value))
    ELSE Raise("InvalidInvoiceFormatError")

parse_invoice_from_json(invoice_data) ==
    LET dicts == IF "items" \in DOMAIN invoice_data THEN invoice_data.items
                 ELSE <<>>
        items == [i \in 1..Len(dicts) |-> ItemFromJson(dicts[i])]
    IN IF \E i \in 1..Len(items) : items[i].raised
       THEN Raise("InvalidInvoiceFormatError")
       \* KeyError
       ELSE IF ~({"vendor_name", "invoice_number", "invoice_date",
                  "total_amount"} \subseteq DOMAIN invoice_data)
       THEN Raise("InvalidInvoiceFormatError")
       \* TypeError of fromisoformat
       ELSE IF invoice_data.invoice_date.type # "str"
       THEN Raise("InvalidInvoiceFormatError")
       \* ValueError of fromisoformat
       ELSE IF FromIsoformat(invoice_data.invoice_date.value) = None
       THEN Raise("InvalidInvoiceFormatError")
       ELSE ValidatedInvoice(invoice_data.vendor_name,
                             invoice_data.invoice_number,
                             FromIsoformat(invoice_data.invoice_date.value)[1],
                             invoice_data.total_amount,
                             [i \in 1..Len(items) |-> items[i].value],
                             IF "currency" \in DOMAIN invoice_data
                             THEN invoice_data.currency ELSE PyStr("USD"))

----------------------------------------------------------------------------
(* app/services/storage_service.py *)

StoredIds(store) == { store[i].id : i \in 1..Len(store) }

\* StorageService.get: the record, for an id that is stored
get(store, invoice_id) ==
    store[CHOOSE i \in 1..Len(store) : store[i].id = invoice_id]

\* save that keeps one record per invoice number
save_by_number(store, invoice) ==
    IF \E i \in 1..Len(store) :
          store[i].parsed_data.invoice_number = invoice.parsed_data.invoice_number
    THEN [i \in 1..Len(store) |->
            IF store[i].parsed_data.invoice_number = invoice.parsed_data.invoice_number
            THEN invoice ELSE store[i]]
    ELSE Append(store, invoice)

\* StorageService.save: self._invoices[invoice.id] = invoice (a new key goes
\* to the end of the dict, an old one keeps its place)
save(store, invoice) ==
    IF invoice.id \in StoredIds(store)
    THEN [i \in 1..Len(store) |->
            IF store[i].id = invoice.id THEN invoice ELSE store[i]]
    ELSE Append(store, invoice)

\* delete that drops the oldest record
delete_oldest(store, invoice_id) == Tail(store)

\* StorageService.delete: del self._invoices[invoice_id], for a stored id
delete(store, invoice_id) ==
    SelectSeq(store, LAMBDA inv : inv.id # invoice_id)

\* get_by_vendor that compares the names as they are spelled
get_by_vendor_exact(store, vendor_name) ==
    SelectSeq(store, LAMBDA inv : inv.parsed_data.vendor_name = vendor_name)

get_by_vendor(store, vendor_name) ==
    SelectSeq(store, LAMBDA inv :
        Lower(inv.parsed_data.vendor_name) = Lower(vendor_name))

----------------------------------------------------------------------------
(* app/services/anomaly_service.py: the four detectors *)

\* what a detector did: it returned a list of details, or an exception left it
Returned(anomalies) == [raised |-> FALSE, anomalies |-> anomalies]
Raised == [raised |-> TRUE, anomalies |-> <<>>]

\* the per-item outcomes of a detector's for loop, put together: the loop
\* returns the details in item order unless some iteration raised
Collect(steps) ==
    IF \E i \in 1..Len(steps) : steps[i].raised THEN Raised
    ELSE Returned(Flatten([i \in 1..Len(steps) |-> steps[i].anomalies]))

\* every item of every historical invoice, in invoice and item order
AllItems(historical) ==
    Flatten([i \in 1..Len(historical) |-> historical[i].parsed_data.items])

\* the historical items filed under the key item.name (exact match) in
\* historical_prices / historical_quantities
HistoricalOf(historical, name) ==
    SelectSeq(AllItems(historical), LAMBDA it : it.name = name)

PriceStepInclusive(item, historical) ==
    LET h == HistoricalOf(historical, item.name)
        n == Len(h)
        total == SumSeq([i \in 1..n |-> h[i].unit_price])
        over == 100 * (item.unit_price * n - total)
    IN IF n = 0 THEN Returned(<<>>)
       ELSE IF total = 0 THEN Raised
       ELSE IF over >= 20 * total
            THEN Returned(<< AnomalyDetail(PRICE_INCREASE, Some(item.name),
                     Min(100, Trunc(30 * total + (over - 20 * total) * 2, total)),
                     "Price increased by") >>)
            ELSE Returned(<<>>)

\* one iteration of the loop of _check_price_increases (lines 95-108)
PriceStep(item, historical) ==
    LET h == HistoricalOf(historical, item.name)
        n == Len(h)
        total == SumSeq([i \in 1..n |-> h[i].unit_price])
        \* price_increase_pct = over / total, with avg_price = total / n
        over == 100 * (item.unit_price * n - total)
    IN IF n = 0 THEN Returned(<<>>)
       ELSE IF total = 0 THEN Raised                \* ZeroDivisionError
       ELSE IF over > 20 * total
            THEN Returned(<< AnomalyDetail(PRICE_INCREASE, Some(item.name),
                     Min(100, Trunc(30 * total + (over - 20 * total) * 2, total)),
                     "Price increased by") >>)
            ELSE Returned(<<>>)

_check_price_increases(invoice, historical) ==
    Collect([i \in 1..Len(invoice.parsed_data.items) |->
                PriceStep(invoice.parsed_data.items[i], historical)])

QuantityStepBothBranches(item, historical) ==
    LET h == HistoricalOf(historical, item.name)
        n == Len(h)
        quantities == [i \in 1..n |-> h[i].quantity]
        total == SumSeq(quantities)
        max_quantity == MaxSeq(quantities)
        over == 100 * (item.quantity * n - total)
        above_avg ==
            IF item.quantity * n > total * 2
            THEN << AnomalyDetail(QUANTITY_DEVIATION, Some(item.name),
                      Min(100, Trunc(250 * total + (over - 100 * total) * 3, 10 * total)),
                      "Quantity is above average") >>
            ELSE <<>>
        above_max ==
            IF item.quantity * 2 > max_quantity * 3
            THEN << AnomalyDetail(QUANTITY_DEVIATION, Some(item.name),
                      Min(100, Trunc(80 * max_quantity
                                       + (2 * item.quantity - 3 * max_quantity) * 20,
                                     2 * max_quantity)),
                      "Quantity exceeds historical maximum by") >>
            ELSE <<>>
    IN IF n = 0 THEN Returned(<<>>)
       ELSE IF total = 0 /\ item.quantity > 0 THEN Raised
       ELSE Returned(above_avg \o above_max)

\* one iteration of the loop of _check_quantity_deviations (lines 127-153)
QuantityStep(item, historical) ==
    LET h == HistoricalOf(historical, item.name)
        n == Len(h)
        quantities == [i \in 1..n |-> h[i].quantity]
        total == SumSeq(quantities)
        max_quantity == MaxSeq(quantities)
        \* deviation_pct = over / total, with avg_quantity = total / n
        over == 100 * (item.quantity * n - total)
    IN IF n = 0 THEN Returned(<<>>)
       ELSE IF item.quantity * n > total * 2
            THEN IF total = 0 THEN Raised           \* ZeroDivisionError
                 ELSE Returned(<< AnomalyDetail(QUANTITY_DEVIATION, Some(item.name),
                          Min(100, Trunc(250 * total + (over - 100 * total) * 3, 10 * total)),
                          "Quantity is above average") >>)
       ELSE IF item.quantity * 2 > max_quantity * 3
            THEN IF max_quantity = 0 THEN Raised    \* ZeroDivisionError
                 ELSE Returned(<< AnomalyDetail(QUANTITY_DEVIATION, Some(item.name),
                          Min(100, Trunc(80 * max_quantity
                                           + (2 * item.quantity - 3 * max_quantity) * 20,
                                         2 * max_quantity)),
                          "Quantity exceeds historical maximum by") >>)
       ELSE Returned(<<>>)

_check_quantity_deviations(invoice, historical) ==
    Collect([i \in 1..Len(invoice.parsed_data.items) |->
                QuantityStep(invoice.parsed_data.items[i], historical)])

NewItemStepCaseSensitive(item, invoice, historical) ==
    LET all == AllItems(historical)
        historical_items == { all[i].name : i \in 1..Len(all) }
        total_amount == invoice.parsed_data.total_amount
    IN IF item.name \in historical_items THEN Returned(<<>>)
       ELSE IF total_amount = 0 THEN Raised
       ELSE Returned(<< AnomalyDetail(NEW_ITEM, Some(item.name),
                Min(100, Trunc(40 * total_amount + 100 * item.total_price,
                               2 * total_amount)),
                "New item never seen before for this vendor") >>)

\* one iteration of the loop of _check_new_items (lines 170-182)
NewItemStep(item, invoice, historical) ==
    LET all == AllItems(historical)
        historical_items == { Lower(all[i].name) : i \in 1..Len(all) }
        total_amount == invoice.parsed_data.total_amount
    IN IF Lower(item.name) \in historical_items THEN Returned(<<>>)
       ELSE IF total_amount = 0 THEN Raised         \* ZeroDivisionError
       ELSE \* item_value_pct = 100 * total_price / total_amount
            Returned(<< AnomalyDetail(NEW_ITEM, Some(item.name),
                Min(100, Trunc(40 * total_amount + 100 * item.total_price,
                               2 * total_amount)),
                "New item never seen before for this vendor") >>)

_check_new_items(invoice, historical) ==
    Collect([i \in 1..Len(invoice.parsed_data.items) |->
                NewItemStep(invoice.parsed_data.items[i], invoice, historical)])

_check_amount_deviation_above_only(invoice, historical) ==
    LET n == Len(historical)
        total == SumSeq([i \in 1..n |-> historical[i].parsed_data.total_amount])
        current_amount == invoice.parsed_data.total_amount
        dev == 100 * (current_amount * n - total)
    IN IF n = 0 THEN Returned(<<>>)
       ELSE IF total = 0 THEN Raised
       ELSE IF dev > 30 * total
            THEN Returned(<< AnomalyDetail(AMOUNT_DEVIATION, None,
                     Min(100, Trunc(70 * total + (dev - 30 * total) * 3, 2 * total)),
                     "Total amount is above average") >>)
            ELSE Returned(<<>>)

_check_amount_deviation(invoice, historical) ==
    LET n == Len(historical)
        total == SumSeq([i \in 1..n |-> historical[i].parsed_data.total_amount])
        current_amount == invoice.parsed_data.total_amount
        \* deviation_pct = dev / total, with avg_amount = total / n
        dev == 100 * Abs(current_amount * n - total)
    IN IF n = 0 THEN Returned(<<>>)
       ELSE IF total = 0 THEN Raised                \* ZeroDivisionError
       ELSE IF dev > 30 * total
            THEN Returned(<< AnomalyDetail(AMOUNT_DEVIATION, None,
                     Min(100, Trunc(70 * total + (dev - 30 * total) * 3, 2 * total)),
                     IF current_amount * n > total
                     THEN "Total amount is above average"
                     ELSE "Total amount is below average") >>)
            ELSE Returned(<<>>)

----------------------------------------------------------------------------
(* app/services/anomaly_service.py: explanation and analyze_invoice *)

\* a line of the explanation: its fixed wording and the number it shows
Line(text, n) == [text |-> text, n |-> n]

\* _generate_explanation that lists the last detection first
_generate_explanation_last_first(anomalies, risk_score) ==
    IF anomalies = <<>>
    THEN << Line("No anomalies detected. Invoice appears normal.", 0) >>
    ELSE LET risk_level == IF risk_score >= 70 THEN "HIGH RISK"
                           ELSE IF risk_score >= 50 THEN "MODERATE RISK"
                           ELSE "LOW RISK"
         IN << Line(risk_level, risk_score),
               Line("Detected anomaly/ies:", Len(anomalies)) >>
            \o [i \in 1..Len(anomalies) |->
                  Line(anomalies[Len(anomalies) + 1 - i].description, i)]

_generate_explanation(anomalies, risk_score) ==
    IF anomalies = <<>>
    THEN << Line("No anomalies detected. Invoice appears normal.", 0) >>
    ELSE LET risk_level == IF risk_score >= 70 THEN "HIGH RISK"
                           ELSE IF risk_score >= 50 THEN "MODERATE RISK"
                           ELSE "LOW RISK"
         IN << Line(risk_level, risk_score),
               Line("Detected anomaly/ies:", Len(anomalies)) >>
            \o [i \in 1..Len(anomalies) |-> Line(anomalies[i].description, i)]

AnomalyResult(is_suspicious, risk_score, anomalies, explanation, ran) ==
    [raised |-> FALSE, is_suspicious |-> is_suspicious, risk_score |-> risk_score,
     anomalies |-> anomalies, explanation |-> explanation, ran |-> ran]

\* analyze_invoice left by an exception after having started the detectors ran
AnalysisRaised(ran) == [raised |-> TRUE, ran |-> ran]

\* the history without the records that are flagged as suspicious
HistoryOfUnflagged(invoice, store) ==
    SelectSeq(get_by_vendor(store, invoice.parsed_data.vendor_name),
              LAMBDA inv : inv.id # invoice.id /\ ~inv.is_suspicious)

\* the historical invoices analyze_invoice compares with (lines 21-29)
HistoryOf(invoice, store) ==
    SelectSeq(get_by_vendor(store, invoice.parsed_data.vendor_name),
              LAMBDA inv : inv.id # invoice.id)

\* analyze_invoice that puts the details together in the reverse order of the
\* detector calls
analyze_invoice_amount_first(invoice, store) ==
    LET historical_invoices == HistoryOf(invoice, store)
        price == _check_price_increases(invoice, historical_invoices)
        quantity == _check_quantity_deviations(invoice, historical_invoices)
        new_item == _check_new_items(invoice, historical_invoices)
        amount == _check_amount_deviation(invoice, historical_invoices)
        anomalies == amount.anomalies \o new_item.anomalies
                        \o quantity.anomalies \o price.anomalies
        risk_score == _calculate_risk_score(anomalies)
    IN IF historical_invoices = <<>>
       THEN AnomalyResult(FALSE, 10, <<>>,
              << Line("No historical data available for this vendor. First invoice from this vendor.", 0) >>,
              <<>>)
       ELSE IF price.raised \/ quantity.raised \/ new_item.raised \/ amount.raised
            THEN AnalysisRaised(<<PRICE_INCREASE>>)
       ELSE AnomalyResult(risk_score >= 50, risk_score, anomalies,
                          _generate_explanation(anomalies, risk_score),
                          <<PRICE_INCREASE, QUANTITY_DEVIATION, NEW_ITEM,
                            AMOUNT_DEVIATION>>)

\* analyze_invoice without the early return of lines 31-37
analyze_invoice_without_shortcut(invoice, store) ==
    LET historical_invoices == HistoryOf(invoice, store)
        price == _check_price_increases(invoice, historical_invoices)
        quantity == _check_quantity_deviations(invoice, historical_invoices)
        new_item == _check_new_items(invoice, historical_invoices)
        amount == _check_amount_deviation(invoice, historical_invoices)
        anomalies == price.anomalies \o quantity.anomalies
                        \o new_item.anomalies \o amount.anomalies
        risk_score == _calculate_risk_score(anomalies)
    IN IF price.raised THEN AnalysisRaised(<<PRICE_INCREASE>>)
       ELSE IF quantity.raised
            THEN AnalysisRaised(<<PRICE_INCREASE, QUANTITY_DEVIATION>>)
       ELSE IF new_item.raised
            THEN AnalysisRaised(<<PRICE_INCREASE, QUANTITY_DEVIATION, NEW_ITEM>>)
       ELSE IF amount.raised
            THEN AnalysisRaised(<<PRICE_INCREASE, QUANTITY_DEVIATION, NEW_ITEM,
                                  AMOUNT_DEVIATION>>)
       ELSE AnomalyResult(risk_score >= 50, risk_score, anomalies,
                          _generate_explanation(anomalies, risk_score),
                          <<PRICE_INCREASE, QUANTITY_DEVIATION, NEW_ITEM,
                            AMOUNT_DEVIATION>>)

\* ran lists the detectors that were called, in call order
analyze_invoice(invoice, store) ==
    LET historical_invoices == HistoryOf(invoice, store)
        price == _check_price_increases(invoice, historical_invoices)
        quantity == _check_quantity_deviations(invoice, historical_invoices)
        new_item == _check_new_items(invoice, historical_invoices)
        amount == _check_amount_deviation(invoice, historical_invoices)
        anomalies == price.anomalies \o quantity.anomalies
                        \o new_item.anomalies \o amount.anomalies
        risk_score == _calculate_risk_score(anomalies)
    IN IF historical_invoices = <<>>
       THEN AnomalyResult(FALSE, 10, <<>>,
              << Line("No historical data available for this vendor. First invoice from this vendor.", 0) >>,
              <<>>)
       ELSE IF price.raised THEN AnalysisRaised(<<PRICE_INCREASE>>)
       ELSE IF quantity.raised
            THEN AnalysisRaised(<<PRICE_INCREASE, QUANTITY_DEVIATION>>)
       ELSE IF new_item.raised
            THEN AnalysisRaised(<<PRICE_INCREASE, QUANTITY_DEVIATION, NEW_ITEM>>)
       ELSE IF amount.raised
            THEN AnalysisRaised(<<PRICE_INCREASE, QUANTITY_DEVIATION, NEW_ITEM,
                                  AMOUNT_DEVIATION>>)
       ELSE AnomalyResult(risk_score >= 50, risk_score, anomalies,
                          _generate_explanation(anomalies, risk_score),
                          <<PRICE_INCREASE, QUANTITY_DEVIATION, NEW_ITEM,
                            AMOUNT_DEVIATION>>)

----------------------------------------------------------------------------
(* app/controllers/anomaly_controller.py and the analyze view *)

\* update_invoice_analysis that leaves is_suspicious alone
update_invoice_analysis_score_only(store, invoice_id, is_suspicious, risk_score, explanation) ==
    [i \in 1..Len(store) |->
        IF store[i].id = invoice_id
        THEN [store[i] EXCEPT !.risk_score = Some(risk_score),
                              !.anomaly_explanation = Some(explanation)]
        ELSE store[i]]

\* update_invoice_analysis that writes to every record of the store
update_invoice_analysis_every_record(store, invoice_id, is_suspicious, risk_score, explanation) ==
    [i \in 1..Len(store) |->
        [store[i] EXCEPT !.is_suspicious = is_suspicious,
                         !.risk_score = Some(risk_score),
                         !.anomaly_explanation = Some(explanation)]]

\* InvoiceController.update_invoice_analysis -> StorageService.update: setattr
\* of the three risk fields on the stored record
update_invoice_analysis(store, invoice_id, is_suspicious, risk_score, explanation) ==
    [i \in 1..Len(store) |->
        IF store[i].id = invoice_id
        THEN [store[i] EXCEPT !.is_suspicious = is_suspicious,
                              !.risk_score = Some(risk_score),
                              !.anomaly_explanation = Some(explanation)]
        ELSE store[i]]

\* a controller that writes a clean result when the analysis raised
StoreAfterAnalysisAbsorbed(store, invoice_id, r) ==
    IF r.raised
    THEN update_invoice_analysis(store, invoice_id, FALSE, 0,
             << Line("No anomalies detected. Invoice appears normal.", 0) >>)
    ELSE update_invoice_analysis(store, invoice_id, r.is_suspicious,
                                 r.risk_score, r.explanation)

\* AnomalyController.analyze_invoice on a stored id: the store it leaves
\* (unchanged when the analysis raised before update_invoice_analysis)
StoreAfterAnalysis(store, invoice_id, r) ==
    IF r.raised THEN store
    ELSE update_invoice_analysis(store, invoice_id, r.is_suspicious,
                                 r.risk_score, r.explanation)

Called(invoice_id, r) == [op |-> "analyze_invoice", invoice_id |-> invoice_id, value |-> r]

\* AnomalyController.analyze_invoice on a stored id: what the analysis did
\* and the store the controller leaves
AnalyzeStored(store, invoice_id) ==
    LET Updated(r) == [value |-> r,
                       store |-> StoreAfterAnalysis(store, invoice_id, r)]
    IN Updated(analyze_invoice(get(store, invoice_id), store))

\* POST /api/invoices/{invoice_id}/analyze
AnalyzeInvoice(invoice_id) ==
    LET Analyzed(analysis) ==
            /\ result' = Called(invoice_id, analysis.value)
            /\ invoices' = analysis.store
            /\ response' = [op |-> "analyze", id |-> invoice_id,
                            status |-> IF analysis.value.raised THEN 500 ELSE 200]
    IN /\ IF invoice_id \notin StoredIds(invoices)
          THEN /\ response' = [op |-> "analyze", id |-> invoice_id, status |-> 404]
               /\ result' = Idle
               /\ UNCHANGED invoices
          ELSE Analyzed(AnalyzeStored(invoices, invoice_id))
       /\ UNCHANGED <<nextId, dets, agg, prevAgg, doc, parsed, erpnext>>

----------------------------------------------------------------------------
(* app/views/invoice_views.py: the other endpoints.  Ids come from         *)
(* uuid.uuid4(): the k-th id handed out is k.                              *)

Answer(op, id, status) == [op |-> op, id |-> id, status |-> status]

\* POST /api/invoices/create
CreateInvoice(invoice_data) ==
    LET parsed_data == parse_invoice_from_json(invoice_data)
        id == nextId + 1
    IN /\ IF parsed_data.raised
          THEN /\ response' = Answer("create", 0, 400)
               /\ UNCHANGED <<invoices, nextId>>
          ELSE /\ invoices' = save(invoices, Invoice(id, parsed_data.value, NOW))
               /\ nextId' = id
               /\ response' = Answer("create", id, 201)
       /\ result' = Idle
       /\ UNCHANGED <<dets, agg, prevAgg, doc, parsed, erpnext>>

\* InvoiceController.upload_and_parse_invoice under the id it draws: the
\* store it leaves, or the exception of Invoice(parsed_data=None)
upload_and_parse_invoice(store, id, document) ==
    LET Saved(parsed_data) ==
            IF parsed_data.raised THEN parsed_data
            ELSE IF parsed_data.value = None THEN Raise("ValidationError")
            ELSE Return(save(store, Invoice(id, parsed_data.value[1], NOW)))
    IN Saved(parse_invoice(document))

\* POST /api/invoices/upload: parse, save, then analyze; what the analysis
\* raises is logged and dropped
UploadInvoice(document) ==
    LET id == nextId + 1
        Analyzed(analysis) ==
            /\ invoices' = analysis.store
            /\ nextId' = id
            /\ result' = Called(id, analysis.value)
            /\ response' = Answer("upload", id, 201)
        Uploaded(saved) ==
            IF saved.raised
            THEN /\ response' = Answer("upload", 0, 500)
                 /\ result' = Idle
                 /\ UNCHANGED <<invoices, nextId>>
            ELSE Analyzed(AnalyzeStored(saved.value, id))
    IN /\ Uploaded(upload_and_parse_invoice(invoices, id, document))
       /\ UNCHANGED <<dets, agg, prevAgg, doc, parsed, erpnext>>

\* GET /api/invoices/{invoice_id}
GetInvoice(invoice_id) ==
    /\ response' = Answer("get", invoice_id,
                          IF invoice_id \in StoredIds(invoices) THEN 200 ELSE 404)
    /\ result' = Idle
    /\ UNCHANGED <<invoices, nextId, dets, agg, prevAgg, doc, parsed, erpnext>>

\* DELETE /api/invoices/{invoice_id}
DeleteInvoice(invoice_id) ==
    /\ IF invoice_id \notin StoredIds(invoices)
       THEN /\ response' = Answer("delete", invoice_id, 404)
            /\ UNCHANGED invoices
       ELSE /\ invoices' = delete(invoices, invoice_id)
            /\ response' = Answer("delete", invoice_id, 200)
    /\ result' = Idle
    /\ UNCHANGED <<nextId, dets, agg, prevAgg, doc, parsed, erpnext>>

\* erpnext_result.get('data', {}).get('name', 'unknown')
ErpnextInvoiceName(erpnext_result) ==
    IF "data" \in DOMAIN erpnext_result
    THEN IF "name" \in DOMAIN erpnext_result.data
         THEN erpnext_result.data.name ELSE "unknown"
    ELSE "unknown"

\* the answers of submit-to-erpnext say whether create_purchase_invoice was
\* called
SubmitAnswer(invoice_id, status, detail, called) ==
    [op |-> "submit", id |-> invoice_id, status |-> status,
     detail |-> detail, called |-> called]

\* submit-to-erpnext without the look at submitted_to_erpnext
SubmitToErpnext_unchecked(invoice_id, erpnext_result) ==
    LET Submit(analysis) ==
            /\ result' = Called(invoice_id, analysis.value)
            /\ IF erpnext_result.raised
               THEN /\ invoices' = analysis.store
                    /\ response' = SubmitAnswer(invoice_id, 500,
                                                "failed to submit", TRUE)
                    /\ UNCHANGED erpnext
               ELSE /\ invoices' =
                         save(analysis.store,
                              [get(analysis.store, invoice_id) EXCEPT
                                  !.submitted_to_erpnext = TRUE,
                                  !.erpnext_invoice_name =
                                      Some(ErpnextInvoiceName(erpnext_result.value))])
                    /\ response' = SubmitAnswer(invoice_id, 200, "", TRUE)
                    /\ erpnext' =
                         [erpnext EXCEPT !.purchase_invoices =
                            Append(@, [id |-> invoice_id,
                                       name |-> ErpnextInvoiceName(erpnext_result.value)])]
    IN /\ IF invoice_id \notin StoredIds(invoices)
          THEN /\ response' = SubmitAnswer(invoice_id, 404, "not found", FALSE)
               /\ result' = Idle
               /\ UNCHANGED <<invoices, erpnext>>
          ELSE IF ~erpnext.configured
          THEN /\ response' = SubmitAnswer(invoice_id, 400, "not configured", FALSE)
               /\ result' = Idle
               /\ UNCHANGED <<invoices, erpnext>>
          ELSE Submit(AnalyzeStored(invoices, invoice_id))
       /\ UNCHANGED <<nextId, dets, agg, prevAgg, doc, parsed>>

\* submit-to-erpnext that marks the record as submitted before the call
SubmitToErpnext_marked_first(invoice_id, erpnext_result) ==
    LET Marked(store) ==
            save(store,
                 [get(store, invoice_id) EXCEPT
                     !.submitted_to_erpnext = TRUE,
                     !.erpnext_invoice_name =
                         IF erpnext_result.raised THEN None
                         ELSE Some(ErpnextInvoiceName(erpnext_result.value))])
        Submit(analysis) ==
            /\ result' = Called(invoice_id, analysis.value)
            /\ invoices' = Marked(analysis.store)
            /\ IF erpnext_result.raised
               THEN /\ response' = SubmitAnswer(invoice_id, 500,
                                                "failed to submit", TRUE)
                    /\ UNCHANGED erpnext
               ELSE /\ response' = SubmitAnswer(invoice_id, 200, "", TRUE)
                    /\ erpnext' =
                         [erpnext EXCEPT !.purchase_invoices =
                            Append(@, [id |-> invoice_id,
                                       name |-> ErpnextInvoiceName(erpnext_result.value)])]
    IN /\ IF invoice_id \notin StoredIds(invoices)
          THEN /\ response' = SubmitAnswer(invoice_id, 404, "not found", FALSE)
               /\ result' = Idle
               /\ UNCHANGED <<invoices, erpnext>>
          ELSE IF get(invoices, invoice_id).submitted_to_erpnext
          THEN /\ response' = SubmitAnswer(invoice_id, 400,
                                           "already been submitted", FALSE)
               /\ result' = Idle
               /\ UNCHANGED <<invoices, erpnext>>
          ELSE IF ~erpnext.configured
          THEN /\ response' = SubmitAnswer(invoice_id, 400, "not configured", FALSE)
               /\ result' = Idle
               /\ UNCHANGED <<invoices, erpnext>>
          ELSE Submit(AnalyzeStored(invoices, invoice_id))
       /\ UNCHANGED <<nextId, dets, agg, prevAgg, doc, parsed>>

\* POST /api/invoices/{invoice_id}/submit-to-erpnext; erpnext_result is what
\* ERPNextClient.create_purchase_invoice does when it is called: it returns
\* the created document or raises
SubmitToErpnext(invoice_id, erpnext_result) ==
    LET \* lines 192-214, after the analysis
        Submit(analysis) ==
            /\ result' = Called(invoice_id, analysis.value)
            /\ IF erpnext_result.raised
               THEN /\ invoices' = analysis.store
                    /\ response' = SubmitAnswer(invoice_id, 500,
                                                "failed to submit", TRUE)
                    /\ UNCHANGED erpnext
               ELSE /\ invoices' =
                         save(analysis.store,
                              [get(analysis.store, invoice_id) EXCEPT
                                  !.submitted_to_erpnext = TRUE,
                                  !.erpnext_invoice_name =
                                      Some(ErpnextInvoiceName(erpnext_result.value))])
                    /\ response' = SubmitAnswer(invoice_id, 200, "", TRUE)
                    /\ erpnext' =
                         [erpnext EXCEPT !.purchase_invoices =
                            Append(@, [id |-> invoice_id,
                                       name |-> ErpnextInvoiceName(erpnext_result.value)])]
    IN /\ IF invoice_id \notin StoredIds(invoices)
          THEN /\ response' = SubmitAnswer(invoice_id, 404, "not found", FALSE)
               /\ result' = Idle
               /\ UNCHANGED <<invoices, erpnext>>
          ELSE IF get(invoices, invoice_id).submitted_to_erpnext
          THEN /\ response' = SubmitAnswer(invoice_id, 400,
                                           "already been submitted", FALSE)
               /\ result' = Idle
               /\ UNCHANGED <<invoices, erpnext>>
          ELSE IF ~erpnext.configured
          THEN /\ response' = SubmitAnswer(invoice_id, 400, "not configured", FALSE)
               /\ result' = Idle
               /\ UNCHANGED <<invoices, erpnext>>
          ELSE Submit(AnalyzeStored(invoices, invoice_id))
       /\ UNCHANGED <<nextId, dets, agg, prevAgg, doc, parsed>>

----------------------------------------------------------------------------
(* Extraction harness: a document arrives and parse_invoice is called on   *)
(* it.  The documents are put together from a vocabulary of text lines,    *)
(* table rows and renderer failures.                                       *)

MaxLines == 2
MaxRows == 2

\* the sequences of at most n elements of S
SeqsUpTo(S, n) == UNION { [1..k -> S] : k \in 0..n }

LineVocabulary ==
    { <<"Widget", "10", "125.00", "1250.00">>,
      <<"Gadget", "2", "x", "$50.00">>,
      <<"Service", "1500.00", "3000.00">>,
      <<"Shipping", "25.00">>,
      <<"TOTAL:", "$1,350.00">>,
      <<"Thank", "you", "for", "your", "business">>,
      <<"Refund", "-1", "50.00", "-50.00">>,
      <<"Item", "Qty", "Price", "Total">>,
      <<"Invoice", "#:", "INV-2024-001">>,
      <<"Invoice", "Number:", "2024-001">>,
      <<"Vendor:", "Acme", "Corp">>,
      <<"Date:", "January", "15,", "2024">>,
      <<>>,
      <<"INVOICE">>,
      <<"Due", "02/30/2024">>,
      <<"Ref", "INV2024001", "01/15/2024">>,
      <<"Gadget", "2", "0", "50.00">>,
      <<"Service", "2", "25.00", "0">>,
      <<"Invoice", "INV2024001">> }

HeaderVocabulary ==
    { <<"Item Name", "Quantity", "Unit Price", "Total Price">>,
      <<"Item", "Qty", "Total">>,
      <<"Description", "Qty", "Amount">> }

RowVocabulary ==
    { <<"Widget", "10", "$125.00", "$1,250.00">>,
      <<"Gadget", "2", "", "$100.00">>,
      <<"Bolt", "1000", "", "$1.00">>,
      <<"Credit", "10", "", "-$50.00">>,
      <<"Widget", "", "$125.00", "$1,250.00">>,
      <<"Total", "", "", "$1,350.00">>,
      <<"Valve", "1.2.3", "", "">>,
      <<"Item Name", "Quantity", "Unit Price", "Total Price">>,
      <<"Widget ", "10", "$125.00", "">>,
      <<"Widget">>,
      <<"Nut", "-5", "$1.00", "">>,
      <<"Washer", "200", "", "">> }

MetadataTables ==
    { <<<<"Invoice Number:", "2024-001">>, <<"Vendor:", "Acme Corp">>>>,
      <<<<"Invoice Number:", "INV-2024-001">>, <<"Invoice Date:", "January 15, 2024">>>>,
      <<<<"Invoice", "INV-001">>, <<"ABC Supplies Co.", "Vendor">>>>,
      <<<<"Date: 2024-01-15", "">>, <<"Bill To:", "Customer">>>>,
      <<<<"Total", "$1,250.00">>, <<"Vendor:", "Acme Corp">>>> }

Filenames == {"invoice.pdf", "INVOICE.PDF", "scan.png", "unknown"}

Libraries == [pdfplumber : BOOLEAN, PyPDF2 : BOOLEAN]
BothLibraries == [pdfplumber |-> TRUE, PyPDF2 |-> TRUE]

ItemsTable == << <<"Item Name", "Quantity", "Unit Price", "Total Price">>,
                 <<"Widget", "10", "$125.00", "$1,250.00">> >>
NoItemsTable == << <<"Description", "Qty", "Amount">>,
                   <<"Widget", "10", "$125.00", "$1,250.00">> >>
RaisingTable == << <<"Item Name", "Quantity", "Unit Price", "Total Price">>,
                   <<"Valve", "1.2.3", "", "">> >>

ShortLines == << <<"Widget", "10", "125.00", "1250.00">> >>
ItemLines == << <<"INVOICE">>, <<"Vendor:", "Acme", "Corp">>,
                <<"Widget", "10", "125.00", "1250.00">>,
                <<"TOTAL:", "$1,350.00">> >>
NoItemLines == << <<"Thank", "you", "for", "your", "business">>,
                  <<"Thank", "you", "for", "your", "business">> >>

\* every way down the ladder: file names, installed libraries, renderer
\* failures, tables and texts with and without items
LadderDocuments ==
    { Document(f, libs,
               [raises |-> pr, tables |-> tables, lines |-> lines],
               [raises |-> qr, text |-> text]) :
        f \in Filenames, libs \in Libraries, pr \in BOOLEAN, qr \in BOOLEAN,
        tables \in {<<>>, <<ItemsTable>>, <<NoItemsTable>>, <<RaisingTable>>},
        lines \in {<<>>, ShortLines, ItemLines, NoItemLines},
        text \in {Text(<<>>, FALSE), Text(ItemLines, FALSE), Text(NoItemLines, TRUE)} }

\* the texts of at most MaxLines lines of the vocabulary, alone or after a
\* line that makes them long enough for the text path; no tables
TextDocuments ==
    { Document("invoice.pdf", BothLibraries,
               [raises |-> FALSE, tables |-> <<>>, lines |-> first \o lines],
               [raises |-> FALSE, text |-> Text(<<>>, FALSE)]) :
        first \in {<<>>, << <<"Thank", "you", "for", "your", "business">> >>},
        lines \in SeqsUpTo(LineVocabulary, MaxLines) }

\* a table of at most MaxRows rows under each header, with and without text
\* around it, or after a table of metadata
TableDocuments ==
    LET ItemTables(headers) ==
            { <<h>> \o rows : h \in headers,
                              rows \in SeqsUpTo(RowVocabulary, MaxRows) }
        Of(tables, lines) ==
            Document("invoice.pdf", BothLibraries,
                     [raises |-> FALSE, tables |-> tables, lines |-> lines],
                     [raises |-> FALSE, text |-> Text(ItemLines, FALSE)])
    IN { Of(<<t>>, lines) : t \in ItemTables(HeaderVocabulary),
                            lines \in {<<>>, ItemLines} }
       \cup { Of(<< <<h, r>> >>, << <<"Invoice", "INV2024001">> >>) :
                 h \in {<<"Item Name", "Quantity", "Unit Price", "Total Price">>},
                 r \in RowVocabulary }
       \cup { Of(<<m, t>>, <<>>) :
                 m \in MetadataTables,
                 t \in ItemTables({<<"Item Name", "Quantity", "Unit Price",
                                     "Total Price">>}) }

Documents == LadderDocuments \cup TextDocuments \cup TableDocuments

InitExtract ==
    /\ invoices = <<>>
    /\ nextId = 0
    /\ response = Idle
    /\ result = Idle
    /\ dets = <<>>
    /\ agg = 0
    /\ prevAgg = 0
    /\ doc \in Documents
    /\ parsed = Idle
    /\ erpnext = Idle

\* ParserService.parse_invoice(file_content, filename) on the document
ParseInvoice ==
    /\ parsed = Idle
    /\ parsed' = [op |-> "parse_invoice", outcome |-> parse_invoice(doc)]
    /\ UNCHANGED <<invoices, nextId, response, result, dets, agg, prevAgg, doc, erpnext>>

NextExtract == ParseInvoice

SpecExtract == InitExtract /\ [][NextExtract]_vars

----------------------------------------------------------------------------
(* Item harness: InvoiceItem is constructed from keyword arguments, some of *)
(* them left out, of the wrong type or out of range.                        *)

\* stands for a keyword that is not given
Missing == [type |-> "missing"]

Keyword(key, v) == IF v = Missing THEN <<>> ELSE (key :> v)

ItemData ==
    { Keyword("name", name) @@ Keyword("quantity", quantity)
        @@ Keyword("unit_price", unit_price) @@ Keyword("total_price", total_price) :
        name \in {PyStr("Widget"), Missing},
        quantity \in {PyFloat(0 - U(5)), PyFloat(0), PyFloat(30), PyFloat(U(3)),
                      NAN, PyStr("Widget"), PyStr("10"), PyNone, Missing},
        unit_price \in {PyFloat(0), PyFloat(33), PyFloat(U(10)), PyFloat(0 - U(20)),
                        PyStr("Widget"), Missing},
        total_price \in {PyFloat(0), PyFloat(U(50)), PyNone, Missing} }

InitItem ==
    /\ invoices = <<>>
    /\ nextId = 0
    /\ response = Idle
    /\ result = Idle
    /\ dets = <<>>
    /\ agg = 0
    /\ prevAgg = 0
    /\ doc \in ItemData
    /\ parsed = Idle
    /\ erpnext = Idle

ConstructItem ==
    /\ parsed = Idle
    /\ parsed' = [op |-> "InvoiceItem", outcome |-> InvoiceItem__init__(doc)]
    /\ UNCHANGED <<invoices, nextId, response, result, dets, agg, prevAgg, doc,
                   erpnext>>

NextItem == ConstructItem

SpecItem == InitItem /\ [][NextItem]_vars

----------------------------------------------------------------------------
(* Detector harness: a store loaded from data/invoices.json (StorageService. *)
(* _load) that holds the history of one vendor and a candidate, on which    *)
(* the analyze endpoint is then called.                                     *)

MaxHistory == 3

\* an item whose total_price is quantity * unit_price
PlainItem(name, quantity, unit_price) ==
    Item(name, quantity, unit_price, (quantity * unit_price) \div 100)

OneItemInvoices(items, totals) ==
    { ParsedInvoice("Acme", "INV-1", 1, t, <<it>>, "USD") : it \in items, t \in totals }

UpToTwoItemInvoices(items, totals) ==
    OneItemInvoices(items, totals)
      \cup { ParsedInvoice("Acme", "INV-1", 1, t, <<a, b>>, "USD") :
               a \in items, b \in items, t \in totals }

\* unit prices vary
PriceFamily ==
    [hist |-> OneItemInvoices(
                 { PlainItem("Widget", U(10), p) : p \in {0, U(80), U(100), U(120)} },
                 {U(1000)}),
     cand |-> UpToTwoItemInvoices(
                 { PlainItem(n, U(10), p) : n \in {"Widget", "Gadget"},
                                            p \in {U(100), U(120), U(125), U(250)} },
                 {U(1000)})]

\* quantities vary
QuantityFamily ==
    [hist |-> OneItemInvoices(
                 { PlainItem("Widget", q, U(100)) : q \in {0, U(10), U(20)} },
                 {U(1000)}),
     cand |-> UpToTwoItemInvoices(
                 { PlainItem("Widget", q, U(100)) :
                     q \in {0, U(10), U(16), U(25), U(40), U(100)} },
                 {U(1000)})]

\* item names, item totals and the invoice total vary
NewItemFamily ==
    [hist |-> OneItemInvoices({ PlainItem("Widget", U(10), U(100)) }, {U(1000)}),
     cand |-> UpToTwoItemInvoices(
                 { InvoiceItem(n, q, U(100), tp) :
                     n \in {"Widget", "widget", "Gadget"},
                     q \in {0, U(10)},
                     tp \in {0, U(250), U(1000), U(2000)} },
                 {0, U(1000)})]

\* invoice totals vary
AmountFamily ==
    [hist |-> OneItemInvoices({ PlainItem("Widget", U(10), U(100)) },
                              {0, U(500), U(1000), U(1500)}),
     cand |-> OneItemInvoices({ PlainItem("Widget", U(10), U(100)) },
                              {0, U(500), U(1100), U(1300), U(1600), U(3000)})]

\* prices, quantities, names and totals vary together, so that several
\* detectors answer on one candidate
MixedFamily ==
    [hist |-> OneItemInvoices({ PlainItem("Widget", U(10), U(100)) }, {U(1000)}),
     cand |-> UpToTwoItemInvoices(
                 { PlainItem("Widget", U(40), U(250)),
                   PlainItem("Widget", U(10), U(125)),
                   PlainItem("Gadget", U(10), U(100)),
                   PlainItem("widget", U(40), U(250)) },
                 {U(1000), U(10000)})]

\* vendor names and invoice totals vary: two spellings of one vendor and
\* another vendor in the history, a third spelling on the candidate
VendorFamily ==
    [hist |-> { ParsedInvoice(v, "INV-1", 1, t,
                              << PlainItem("Widget", U(10), U(100)) >>, "USD") :
                  v \in {"Acme", "ACME", "Acme Corp"}, t \in {U(1000), U(2000)} },
     cand |-> { ParsedInvoice(v, "INV-1", 1, t,
                              << PlainItem("Widget", U(10), U(100)) >>, "USD") :
                  v \in {"acme", "Acme Corp"}, t \in {U(1000), U(3000)} }]

\* the history holds a quantity, a unit price or an invoice total of zero;
\* the candidate was analyzed before it was loaded, or not
ZeroFamily ==
    [hist |-> { ParsedInvoice("Acme", "INV-1", 1, U(1000),
                              << PlainItem("Widget", 0, U(100)) >>, "USD"),
                ParsedInvoice("Acme", "INV-1", 1, U(1000),
                              << PlainItem("Widget", U(10), 0) >>, "USD"),
                ParsedInvoice("Acme", "INV-1", 1, 0,
                              << PlainItem("Widget", U(10), U(100)) >>, "USD"),
                ParsedInvoice("Acme", "INV-1", 1, U(1000),
                              << PlainItem("Widget", U(10), U(100)) >>, "USD") },
     cand |-> OneItemInvoices({ PlainItem("Widget", 0, U(100)),
                                PlainItem("Widget", U(10), U(100)),
                                PlainItem("Gadget", U(10), U(100)) },
                              {0, U(1000)}),
     analyzed |-> BOOLEAN]

DetectFamilies ==
    {PriceFamily, QuantityFamily, NewItemFamily, AmountFamily, MixedFamily,
     VendorFamily, ZeroFamily}

\* the record as an earlier analysis that flagged it left it in the file
AnalyzedBefore(invoice) ==
    [invoice EXCEPT !.is_suspicious = TRUE, !.risk_score = Some(55),
                    !.anomaly_explanation =
                        Some(<< Line("MODERATE RISK", 55),
                                Line("Detected anomaly/ies:", 1),
                                Line("Price increased by", 1) >>)]

InitDetect ==
    /\ \E family \in DetectFamilies : \E k \in 1..MaxHistory :
         \E h \in [1..k -> family.hist], c \in family.cand,
            analyzed \in IF "analyzed" \in DOMAIN family
                         THEN family.analyzed ELSE {FALSE} :
            invoices = [i \in 1..(k + 1) |->
                           IF i <= k THEN Invoice(i, h[i], i)
                           ELSE IF analyzed THEN AnalyzedBefore(Invoice(i, c, i))
                           ELSE Invoice(i, c, i)]
    /\ nextId = Len(invoices)
    /\ response = Idle
    /\ result = Idle
    /\ dets = <<>>
    /\ agg = 0
    /\ prevAgg = 0
    /\ doc = Idle
    /\ parsed = Idle
    /\ erpnext = Idle

\* the candidate is the record loaded last
NextDetect == AnalyzeInvoice(Len(invoices))

SpecDetect == InitDetect /\ [][NextDetect]_vars

----------------------------------------------------------------------------
(* The service: requests arrive at the endpoints of an empty store, in any *)
(* order.                                                                  *)

MaxInvoices == 2

JsonItem(name, quantity, unit_price) ==
    [name |-> name, quantity |-> quantity, unit_price |-> unit_price]

\* the bodies posted to /api/invoices/create; the last one is rejected
CreateRequests ==
    { [vendor_name |-> PyStr("Acme"), invoice_number |-> PyStr("INV-1"),
       invoice_date |-> PyStr("2024-01-15T10:00:00"),
       total_amount |-> PyFloat(U(1000)),
       items |-> << JsonItem("Widget", U(10), U(100)) >>,
       currency |-> PyStr("USD")],
      [vendor_name |-> PyStr("ACME"), invoice_number |-> PyStr("INV-2"),
       invoice_date |-> PyStr("2024-02-15T00:00:00"),
       total_amount |-> PyFloat(U(10000)),
       items |-> << [name |-> "Widget", quantity |-> U(40),
                     unit_price |-> U(250), total_price |-> U(10000)],
                    JsonItem("Gadget", 0 - U(5), U(100)) >>],
      [vendor_name |-> PyStr("Acme"), invoice_number |-> PyStr("INV-3"),
       invoice_date |-> PyStr("15/01/2024"),
       total_amount |-> PyFloat(U(1000))] }

\* the files posted to /api/invoices/upload: an image, and a PDF whose text
\* has no item line
UploadDocuments ==
    { Document("scan.png", BothLibraries,
               [raises |-> FALSE, tables |-> <<>>, lines |-> <<>>],
               [raises |-> FALSE, text |-> Text(<<>>, FALSE)]),
      Document("invoice.pdf", BothLibraries,
               [raises |-> FALSE, tables |-> <<>>, lines |-> NoItemLines],
               [raises |-> FALSE, text |-> Text(NoItemLines, TRUE)]) }

\* what create_purchase_invoice does
ErpnextResults ==
    { Return([data |-> [name |-> "ACC-PINV-2024-00001"]]),
      Raise("ParsingError") }

InvoiceIds == 1..MaxInvoices

Init ==
    /\ invoices = <<>>
    /\ nextId = 0
    /\ response = Idle
    /\ result = Idle
    /\ dets = <<>>
    /\ agg = 0
    /\ prevAgg = 0
    /\ doc = Idle
    /\ parsed = Idle
    /\ erpnext \in [configured : BOOLEAN, purchase_invoices : {<<>>}]

Next ==
    \/ \E invoice_data \in CreateRequests :
          nextId < MaxInvoices /\ CreateInvoice(invoice_data)
    \/ \E document \in UploadDocuments :
          nextId < MaxInvoices /\ UploadInvoice(document)
    \/ \E invoice_id \in InvoiceIds : GetInvoice(invoice_id)
    \/ \E invoice_id \in InvoiceIds : AnalyzeInvoice(invoice_id)
    \/ \E invoice_id \in InvoiceIds, erpnext_result \in ErpnextResults :
          SubmitToErpnext(invoice_id, erpnext_result)
    \/ \E invoice_id \in InvoiceIds : DeleteInvoice(invoice_id)

Spec == Init /\ [][Next]_vars

----------------------------------------------------------------------------
(* Create harness: one JSON body is posted to /api/invoices/create, once   *)
(* or again, on a store that is empty or holds a record.  The bodies leave *)
(* out keys and carry values of other types.                               *)

MaxCreated == 2

InitialStores ==
    { <<>>,
      << Invoice(1, ParsedInvoice("Acme", "INV-0", "2024-01-15T10:00:00", U(1000),
                                  << PlainItem("Widget", U(10), U(100)) >>, "USD"),
                 NOW) >> }

\* the items of a body: no key, one complete item, an item without
\* total_price before one with a negative quantity, an item with a
\* total_price of zero, an item without name
ItemsOfBodies ==
    { <<>>,
      "items" :> << [name |-> "Widget", quantity |-> U(10),
                     unit_price |-> U(100), total_price |-> U(1000)] >>,
      "items" :> << JsonItem("Widget", U(3), 33),
                    [name |-> "Gadget", quantity |-> 0 - U(5),
                     unit_price |-> U(100), total_price |-> U(50)] >>,
      "items" :> << [name |-> "Widget", quantity |-> U(2),
                     unit_price |-> U(10), total_price |-> 0] >>,
      "items" :> << [quantity |-> U(1), unit_price |-> U(1)] >> }

CreateBodies ==
    { Keyword("vendor_name", vendor_name) @@ Keyword("invoice_number", invoice_number)
        @@ Keyword("invoice_date", invoice_date) @@ Keyword("total_amount", total_amount)
        @@ Keyword("currency", currency) @@ items :
        vendor_name \in {PyStr("Acme"), PyFloat(U(5)), PyNone, Missing},
        invoice_number \in {PyStr("INV-1"), PyFloat(U(1)), Missing},
        invoice_date \in {PyStr("2024-01-15T10:00:00"), PyStr("2024-02-15"),
                          PyStr("15/01/2024"), PyFloat(U(20240115)), Missing},
        total_amount \in {PyFloat(U(1000)), PyStr("1000"), PyStr("Widget"),
                          PyNone, Missing},
        currency \in {PyStr("EUR"), Missing},
        items \in ItemsOfBodies }

InitCreate ==
    /\ invoices \in InitialStores
    /\ nextId = Len(invoices)
    /\ response = Idle
    /\ result = Idle
    /\ dets = <<>>
    /\ agg = 0
    /\ prevAgg = 0
    /\ doc \in CreateBodies
    /\ parsed = Idle
    /\ erpnext = Idle

NextCreate == nextId < MaxCreated /\ CreateInvoice(doc)

SpecCreate == InitCreate /\ [][NextCreate]_vars

----------------------------------------------------------------------------
(* Aggregation harness: _calculate_risk_score applied to growing lists *)

MaxDetections == 3

\* severities of the detections fed to the aggregation
SeverityValues == {0, 20, 35, 40, 41, 65, 100}

InitScore ==
    /\ invoices = <<>>
    /\ nextId = 0
    /\ response = Idle
    /\ result = Idle
    /\ dets = <<>>
    /\ agg = _calculate_risk_score(<<>>)
    /\ prevAgg = 0
    /\ doc = Idle
    /\ parsed = Idle
    /\ erpnext = Idle

\* one more detection is appended to the list and the list is scored again
AppendDetection(sev) ==
    /\ Len(dets) < MaxDetections
    /\ dets' = Append(dets, AnomalyDetail(NEW_ITEM, None, sev, "New item"))
    /\ agg' = _calculate_risk_score(dets')
    /\ prevAgg' = agg
    /\ UNCHANGED <<invoices, nextId, response, result, doc, parsed, erpnext>>

NextScore == \E sev \in SeverityValues : AppendDetection(sev)

SpecScore == InitScore /\ [][NextScore]_vars

----------------------------------------------------------------------------
(* Claims about the aggregation *)

SeveritySum(ds) == SumSeq([i \in 1..Len(ds) |-> ds[i].severity])

\* C4 as stated: the score of a non-empty list is the product
\* mean * (1 + 0.1 * (count - 1)) rounded to the nearest integer, then clamped
\* to 100; the score of the empty list is 0.
C4_ScoreIsRoundedProduct ==
    agg = IF dets = <<>> THEN 0
          ELSE Min(100, RoundHalfEven(SeveritySum(dets) * (9 + Len(dets)),
                                      10 * Len(dets)))

\* C4 amended: the score of the empty list is 0; otherwise the product is
\* truncated toward zero (int()), not rounded, and then clamped to 100:
\* risk_score = min(100, t) for the whole number t with t <= product < t + 1.
C4_ScoreIsTruncatedProduct ==
    IF dets = <<>> THEN agg = 0
    ELSE LET num == SeveritySum(dets) * (9 + Len(dets))
             den == 10 * Len(dets)
         IN \E t \in 0..(10 * (9 + Len(dets))) :
              /\ agg = Min(100, t)
              /\ t * den <= num
              /\ num < (t + 1) * den

\* two detections 40 and 41: the product 44.55 is scored 44, not 45
C4_Witness ==
    /\ Len(dets) = 2
    /\ dets[1].severity = 40 /\ dets[2].severity = 41
    /\ agg = 44

\* C6 as stated: appending any detection to a non-empty list never lowers the
\* score, and the score lies in 0..100.
C6_MonotoneInCount ==
    /\ Len(dets) >= 2 => agg >= prevAgg
    /\ agg \in 0..100

\* C6 amended: appending a detection whose severity is at least the mean
\* severity of the non-empty list it is appended to never lowers the score,
\* and the score lies in 0..100.
C6_MonotoneWhenNotBelowMean ==
    /\ (/\ Len(dets) >= 2
        /\ dets[Len(dets)].severity * (Len(dets) - 1)
             >= SeveritySum(SubSeq(dets, 1, Len(dets) - 1)))
       => agg >= prevAgg
    /\ agg \in 0..100

\* 65 appended to the list <<35>>: the score rises from 35 to 55
C6_Witness ==
    /\ Len(dets) = 2
    /\ dets[1].severity = 35 /\ dets[2].severity = 65
    /\ prevAgg = 35 /\ agg = 55

----------------------------------------------------------------------------
(* Claims about the detectors.  They are stated on the state the analyze   *)
(* request leaves: the candidate is the stored record the request named,   *)
(* its history the other stored records of its vendor.                     *)

\* the last request ran analyze_invoice and it returned a result
Analysed == result # Idle /\ ~result.value.raised

Candidate == get(invoices, result.invoice_id)
CandidateItems == Candidate.parsed_data.items
History == HistoryOf(Candidate, invoices)

\* the detections of one type in the returned list, in list order
Found(type) == SelectSeq(result.value.anomalies, LAMBDA a : a.type = type)

\* the historical items called name, their number, and the sums and the
\* maximum the averages are taken from
Named(name) == SelectSeq(AllItems(History), LAMBDA it : it.name = name)
Count(name) == Len(Named(name))
PriceSum(name) == SumSeq([i \in 1..Count(name) |-> Named(name)[i].unit_price])
QuantitySum(name) == SumSeq([i \in 1..Count(name) |-> Named(name)[i].quantity])
QuantityMax(name) == MaxSeq([i \in 1..Count(name) |-> Named(name)[i].quantity])

\* sev = min(100, int(num / den)) for a non-negative num / den
IsClampedInt(sev, num, den) ==
    \/ sev = 100 /\ num >= 100 * den
    \/ sev < 100 /\ sev * den <= num /\ num < (sev + 1) * den

\* unit price more than 20% above the historical average of the name
PriceUp(it) ==
    /\ Count(it.name) > 0
    /\ 100 * (it.unit_price * Count(it.name) - PriceSum(it.name))
          > 20 * PriceSum(it.name)

\* C7: the price_increase detections are, in item order, one for each
\* candidate item whose name occurs in the history and whose unit price is
\* more than 20% above the historical average of that name (none at exactly
\* 20%), with severity min(100, int(30 + (pct - 20) * 2)); average 100 and
\* price 125 give severity 40.
C7_PriceIncrease ==
    Analysed /\ History # <<>> =>
        LET up == SelectSeq(CandidateItems, PriceUp)
            found == Found(PRICE_INCREASE)
        IN /\ Len(found) = Len(up)
           /\ \A k \in 1..Len(up) :
                LET it == up[k]
                    total == PriceSum(it.name)
                    pct100 == 100 * (it.unit_price * Count(it.name) - total)
                IN /\ found[k].item_name = Some(it.name)
                   /\ IsClampedInt(found[k].severity,
                                   30 * total + (pct100 - 20 * total) * 2, total)
                   /\ (total = U(100) * Count(it.name) /\ it.unit_price = U(125))
                        => found[k].severity = 40

\* history prices averaging 100, one candidate item at 125: one detection, 40
C7_Witness ==
    /\ Analysed
    /\ Len(CandidateItems) = 1
    /\ CandidateItems[1].unit_price = U(125)
    /\ Count(CandidateItems[1].name) = 2
    /\ PriceSum(CandidateItems[1].name) = U(200)
    /\ Len(Found(PRICE_INCREASE)) = 1
    /\ Found(PRICE_INCREASE)[1].severity = 40

\* exactly 20% above the average: no price_increase detection
C7_WitnessAtThreshold ==
    /\ Analysed
    /\ Len(CandidateItems) = 1
    /\ CandidateItems[1].unit_price = U(120)
    /\ Count(CandidateItems[1].name) = 1
    /\ PriceSum(CandidateItems[1].name) = U(100)
    /\ Found(PRICE_INCREASE) = <<>>

\* the branch of the quantity detector an item takes
AboveAverage(it) ==
    Count(it.name) > 0 /\ it.quantity * Count(it.name) > 2 * QuantitySum(it.name)
AboveMaxOnly(it) ==
    /\ Count(it.name) > 0
    /\ ~AboveAverage(it)
    /\ 2 * it.quantity > 3 * QuantityMax(it.name)

\* C8: each candidate item yields at most one quantity_deviation detection:
\* the average-based one when quantity > 2 x average (also when quantity >
\* 1.5 x max), the max-based one only when quantity <= 2 x average and
\* quantity > 1.5 x max, none otherwise, with the severities of the claim;
\* history 10, 10, 10: quantity 25 gives the average branch with severity 40,
\* quantity 16 the max branch.
C8_QuantityDeviation ==
    Analysed /\ History # <<>> =>
        LET dev == SelectSeq(CandidateItems,
                             LAMBDA it : AboveAverage(it) \/ AboveMaxOnly(it))
            found == Found(QUANTITY_DEVIATION)
        IN /\ Len(found) = Len(dev)
           /\ \A k \in 1..Len(dev) :
                LET it == dev[k]
                    n == Count(it.name)
                    total == QuantitySum(it.name)
                    max == QuantityMax(it.name)
                    tens == n = 3 /\ total = U(30) /\ max = U(10)
                IN /\ found[k].item_name = Some(it.name)
                   /\ IF AboveAverage(it)
                      THEN /\ found[k].description = "Quantity is above average"
                           \* 25 + (pctAboveAvg - 100) * 0.3
                           /\ IsClampedInt(found[k].severity,
                                 250 * total
                                   + (100 * (it.quantity * n - total) - 100 * total) * 3,
                                 10 * total)
                      ELSE /\ found[k].description
                                = "Quantity exceeds historical maximum by"
                           \* 40 + (qty / max - 1.5) * 20
                           /\ IsClampedInt(found[k].severity,
                                 80 * max + (2 * it.quantity - 3 * max) * 20,
                                 2 * max)
                   /\ tens /\ it.quantity = U(25)
                        => /\ found[k].description = "Quantity is above average"
                           /\ found[k].severity = 40
                   /\ tens /\ it.quantity = U(16)
                        => found[k].description
                             = "Quantity exceeds historical maximum by"

\* history 10, 10, 10 and quantity 25: the average branch alone, severity 40
C8_Witness ==
    /\ Analysed
    /\ Len(CandidateItems) = 1
    /\ CandidateItems[1].quantity = U(25)
    /\ Count(CandidateItems[1].name) = 3
    /\ QuantitySum(CandidateItems[1].name) = U(30)
    /\ QuantityMax(CandidateItems[1].name) = U(10)
    /\ Len(Found(QUANTITY_DEVIATION)) = 1
    /\ Found(QUANTITY_DEVIATION)[1].severity = 40

\* history 10, 10, 10 and quantity 16: the max branch
C8_WitnessMaxBranch ==
    /\ Analysed
    /\ Len(CandidateItems) = 1
    /\ CandidateItems[1].quantity = U(16)
    /\ Count(CandidateItems[1].name) = 3
    /\ QuantitySum(CandidateItems[1].name) = U(30)
    /\ QuantityMax(CandidateItems[1].name) = U(10)
    /\ Len(Found(QUANTITY_DEVIATION)) = 1
    /\ Found(QUANTITY_DEVIATION)[1].description
          = "Quantity exceeds historical maximum by"

\* no historical item has this name, letter case ignored
NeverSeen(it) ==
    \A i \in 1..Len(AllItems(History)) :
        Lower(AllItems(History)[i].name) # Lower(it.name)

\* C9: the new_item detections are, in item order, one for each candidate
\* item whose lower-cased name is the lower-cased name of no historical item,
\* with severity min(100, int(20 + 0.5 * (total_price / total_amount * 100))).
C9_NewItem ==
    Analysed /\ History # <<>> =>
        LET new == SelectSeq(CandidateItems, NeverSeen)
            found == Found(NEW_ITEM)
        IN /\ Len(found) = Len(new)
           /\ \A k \in 1..Len(new) :
                /\ found[k].item_name = Some(new[k].name)
                /\ IsClampedInt(found[k].severity,
                      40 * Candidate.parsed_data.total_amount
                         + 100 * new[k].total_price,
                      2 * Candidate.parsed_data.total_amount)

\* "Gadget" (a quarter of the invoice total) is new, "widget" is not: the
\* history has "Widget"
C9_Witness ==
    /\ Analysed
    /\ Len(CandidateItems) = 2
    /\ CandidateItems[1].name = "widget"
    /\ CandidateItems[2].name = "Gadget"
    /\ CandidateItems[2].total_price = U(250)
    /\ Candidate.parsed_data.total_amount = U(1000)
    /\ Len(Found(NEW_ITEM)) = 1
    /\ Found(NEW_ITEM)[1].item_name = Some("Gadget")
    /\ Found(NEW_ITEM)[1].severity = 32

AmountSum == SumSeq([i \in 1..Len(History) |-> History[i].parsed_data.total_amount])

\* C10: at most one amount_deviation detection per evaluation, without item
\* name, emitted exactly when |total - average| / average * 100 > 30, worded
\* "above" when the total is greater than the average and "below" otherwise,
\* with severity min(100, int(35 + (pct - 30) * 1.5)); average 1000: "below"
\* for 500, "above" for 1600, nothing for 1100.
C10_AmountDeviation ==
    Analysed /\ History # <<>> =>
        LET found == Found(AMOUNT_DEVIATION)
            n == Len(History)
            current == Candidate.parsed_data.total_amount
            dev100 == 100 * Abs(current * n - AmountSum)
            thousand == AmountSum = U(1000) * n
        IN /\ Len(found) <= 1
           /\ Len(found) = 1 <=> dev100 > 30 * AmountSum
           /\ \A k \in 1..Len(found) :
                /\ found[k].item_name = None
                /\ found[k].description =
                      IF current * n > AmountSum
                      THEN "Total amount is above average"
                      ELSE "Total amount is below average"
                /\ IsClampedInt(found[k].severity,
                      70 * AmountSum + (dev100 - 30 * AmountSum) * 3,
                      2 * AmountSum)
           /\ thousand /\ current = U(500)
                => /\ Len(found) = 1
                   /\ found[1].description = "Total amount is below average"
           /\ thousand /\ current = U(1600)
                => /\ Len(found) = 1
                   /\ found[1].description = "Total amount is above average"
           /\ thousand /\ current = U(1100) => found = <<>>

\* history totals 500 and 1500 (average 1000), candidate total 500: "below"
C10_Witness ==
    /\ Analysed
    /\ Len(History) = 2
    /\ AmountSum = U(2000)
    /\ Candidate.parsed_data.total_amount = U(500)
    /\ Len(Found(AMOUNT_DEVIATION)) = 1
    /\ Found(AMOUNT_DEVIATION)[1].description = "Total amount is below average"
    /\ Found(AMOUNT_DEVIATION)[1].severity = 65

\* average 1000, candidate total 1600: "above"
C10_WitnessAbove ==
    /\ Analysed
    /\ AmountSum = U(1000) * Len(History)
    /\ Candidate.parsed_data.total_amount = U(1600)
    /\ Len(Found(AMOUNT_DEVIATION)) = 1
    /\ Found(AMOUNT_DEVIATION)[1].description = "Total amount is above average"

\* the item names and the severities of a list of details, in list order
ItemNames(found) == [k \in 1..Len(found) |-> found[k].item_name]
Severities(found) == [k \in 1..Len(found) |-> found[k].severity]
\* the names of the candidate's items that satisfy Flagged, in item order
NamesOf(Flagged(_)) ==
    LET flagged == SelectSeq(CandidateItems, Flagged)
    IN [k \in 1..Len(flagged) |-> Some(flagged[k].name)]

\* C11: the anomalies list of every AnomalyResult is in detector order and not
\* in severity order: the price_increase entries, then the
\* quantity_deviation entries, then the new_item entries, then the (at most
\* one) amount_deviation entry; the entries of one detector name the
\* candidate's items that the detector flags, in the order of the items.
C11_DetectorOrder ==
    Analysed /\ History # <<>> =>
        /\ result.value.anomalies
              = Found(PRICE_INCREASE) \o Found(QUANTITY_DEVIATION)
                  \o Found(NEW_ITEM) \o Found(AMOUNT_DEVIATION)
        /\ Len(Found(AMOUNT_DEVIATION)) <= 1
        /\ ItemNames(Found(PRICE_INCREASE)) = NamesOf(PriceUp)
        /\ ItemNames(Found(QUANTITY_DEVIATION))
              = NamesOf(LAMBDA it : AboveAverage(it) \/ AboveMaxOnly(it))
        /\ ItemNames(Found(NEW_ITEM)) = NamesOf(NeverSeen)

\* the four detectors answered on a candidate whose first item is new and
\* whose second item is dearer and more numerous than before: the list
\* starts with the second item, and its severities neither rise nor fall
C11_Witness ==
    /\ Analysed
    /\ Len(CandidateItems) = 2
    /\ CandidateItems[1].name = "Gadget"
    /\ CandidateItems[2].name = "Widget"
    /\ [k \in 1..Len(result.value.anomalies) |-> result.value.anomalies[k].type]
          = <<PRICE_INCREASE, QUANTITY_DEVIATION, NEW_ITEM, AMOUNT_DEVIATION>>
    /\ ItemNames(result.value.anomalies)
          = <<Some("Widget"), Some("Widget"), Some("Gadget"), None>>
    /\ Severities(result.value.anomalies) = <<100, 85, 25, 100>>

\* two entries of one detector, in item order and in rising severity
C11_WitnessItemOrder ==
    /\ Analysed
    /\ Len(CandidateItems) = 2
    /\ CandidateItems[1].unit_price = U(125)
    /\ CandidateItems[2].unit_price = U(250)
    /\ Severities(Found(PRICE_INCREASE)) = <<40, 100>>

----------------------------------------------------------------------------
(* Claims about the extraction *)

\* the ParsedInvoice parse_invoice returned
Extracted == parsed.outcome.value[1]

\* C2: parse_invoice is total: for every file name and whatever the renderers
\* do with the bytes (they raise, are not installed, yield no pages, no
\* tables or no text), it raises no exception and returns a ParsedInvoice.
C2_ExtractIsTotal ==
    parsed.op = "parse_invoice" =>
        /\ ~parsed.outcome.raised
        /\ parsed.outcome.value # None
        /\ DOMAIN Extracted = {"vendor_name", "invoice_number", "invoice_date",
                               "total_amount", "items", "currency"}
        /\ Extracted.items \in Seq([name : STRING, quantity : Int,
                                    unit_price : Int, total_price : Int])

\* both renderers raised on a PDF and the synthetic invoice came back
C2_Witness ==
    /\ parsed.op = "parse_invoice"
    /\ EndsWithPdf(Lower(doc.filename))
    /\ doc.libs = BothLibraries
    /\ doc.pdfplumber.raises
    /\ doc.PyPDF2.raises
    /\ ~parsed.outcome.raised
    /\ parsed.outcome.value = Some(_mock_parse)

\* a PDF without tables and without text was parsed
C2_WitnessNoPages ==
    /\ parsed.op = "parse_invoice"
    /\ EndsWithPdf(Lower(doc.filename))
    /\ doc.libs = BothLibraries
    /\ ~doc.pdfplumber.raises
    /\ doc.pdfplumber.tables = <<>>
    /\ doc.pdfplumber.lines = <<>>
    /\ ~parsed.outcome.raised
    /\ parsed.outcome.value = Some(_mock_parse)

\* a stage of the ladder gave an invoice with at least one item
StageYields(outcome) ==
    /\ ~outcome.raised
    /\ outcome.value # None
    /\ outcome.value[1].items # <<>>

\* C3: parse_invoice returns the result of the first stage of the ladder
\* table -> text -> synthetic that yields at least one line item: when neither
\* the table path nor the text path yields an item the result is the synthetic
\* placeholder, and so no invoice it returns has an empty item list.
C3_FirstStageWithItems ==
    parsed.op = "parse_invoice" =>
        /\ ~parsed.outcome.raised
        /\ Extracted.items # <<>>
        /\ (~StageYields(ParseWithPdfplumber(doc)) /\ ~StageYields(ParseWithPyPDF2(doc)))
              => Extracted = _mock_parse

----------------------------------------------------------------------------
(* Claims about the service *)

\* the record the last analysis was about, and the history it was compared
\* with (an analysis changes neither ids nor vendors)
Analyzed == get(invoices, result.invoice_id)
AnalyzedHistory == HistoryOf(Analyzed, invoices)

\* C1: when the store holds no other invoice of the candidate's vendor, the
\* analysis returns exactly risk_score 10, is_suspicious false and no
\* anomalies, whatever the candidate's items and total are, and calls none of
\* the four detectors.
C1_FirstInvoiceOfVendor ==
    (/\ result.op = "analyze_invoice"
     /\ result.invoice_id \in StoredIds(invoices)
     /\ AnalyzedHistory = <<>>)
      => /\ ~result.value.raised
         /\ result.value.risk_score = 10
         /\ result.value.is_suspicious = FALSE
         /\ result.value.anomalies = <<>>
         /\ result.value.ran = <<>>

\* an invoice without items was analyzed while the store held an invoice of
\* another vendor only
C1_Witness ==
    /\ result.op = "analyze_invoice"
    /\ result.invoice_id \in StoredIds(invoices)
    /\ AnalyzedHistory = <<>>
    /\ Len(invoices) = 2
    /\ Analyzed.parsed_data.items = <<>>
    /\ result.value.risk_score = 10

\* an invoice with items and a non-zero total was the first of its vendor
C1_WitnessItems ==
    /\ result.op = "analyze_invoice"
    /\ result.invoice_id \in StoredIds(invoices)
    /\ AnalyzedHistory = <<>>
    /\ Len(Analyzed.parsed_data.items) = 2
    /\ Analyzed.parsed_data.total_amount = U(10000)
    /\ result.value.ran = <<>>

\* C5: the suspicious flag agrees with the score: every AnomalyResult has
\* is_suspicious = (risk_score >= 50), and after any sequence of create,
\* upload, analyze, submit-to-ERP and delete requests every stored record has
\* is_suspicious = (risk_score is set and risk_score >= 50).
C5_FlagAgreesWithScore ==
    /\ (result.op = "analyze_invoice" /\ ~result.value.raised)
          => result.value.is_suspicious = (result.value.risk_score >= 50)
    /\ \A i \in 1..Len(invoices) :
          invoices[i].is_suspicious
             = (invoices[i].risk_score # None /\ invoices[i].risk_score[1] >= 50)

\* a submitted record is flagged with a score of at least 50 next to a record
\* that has a score and is not flagged
C5_Witness ==
    /\ result.op = "analyze_invoice"
    /\ ~result.value.raised
    /\ result.value.is_suspicious
    /\ \E i, j \in 1..Len(invoices) :
          /\ invoices[i].is_suspicious
          /\ invoices[i].submitted_to_erpnext
          /\ invoices[i].risk_score # None
          /\ invoices[i].risk_score[1] >= 50
          /\ ~invoices[j].is_suspicious
          /\ invoices[j].risk_score # None

\* a record that was never analyzed is stored next to a flagged one
C5_WitnessUnset ==
    \E i, j \in 1..Len(invoices) :
        /\ invoices[i].risk_score = None
        /\ invoices[j].is_suspicious


\* the store with the three risk fields of every record set to the given
\* values
WithRiskFields(store, is_suspicious, risk_score, anomaly_explanation) ==
    [i \in 1..Len(store) |->
        [store[i] EXCEPT !.is_suspicious = is_suspicious,
                         !.risk_score = risk_score,
                         !.anomaly_explanation = anomaly_explanation]]

\* the last analysis returns the same when it is repeated on the store as it
\* is now, and on the same records with other risk fields
ReevaluatesEqual ==
    (result.op = "analyze_invoice" /\ result.invoice_id \in StoredIds(invoices))
      => \A store \in { invoices,
                        WithRiskFields(invoices, FALSE, None, None),
                        WithRiskFields(invoices, TRUE, Some(100), Some(<<>>)) } :
            analyze_invoice(get(store, result.invoice_id), store) = result.value

\* a step in which analyze_invoice ran keeps every record that was stored, in
\* its place, with its id, parsed_data and uploaded_at; the records it was
\* not called on keep all their fields, the one it was called on keeps all
\* but the fields the controller and the view assign after the call
EvaluationFrame ==
    result'.op = "analyze_invoice"
      => /\ Len(invoices') >= Len(invoices)
         /\ \A i \in 1..Len(invoices) :
               IF invoices[i].id = result'.invoice_id
               THEN invoices'[i] =
                      [invoices[i] EXCEPT
                          !.is_suspicious = invoices'[i].is_suspicious,
                          !.risk_score = invoices'[i].risk_score,
                          !.anomaly_explanation = invoices'[i].anomaly_explanation,
                          !.submitted_to_erpnext = invoices'[i].submitted_to_erpnext,
                          !.erpnext_invoice_name = invoices'[i].erpnext_invoice_name]
               ELSE invoices'[i] = invoices[i]

\* C12: analyze_invoice is pure: the step in which it runs changes no record
\* it read (beyond the fields the controller and the view write afterwards),
\* and evaluating the same candidate against the same stored invoices again
\* returns an equal result, also when the stored risk fields of the records
\* differ between the two calls.
C12_EvaluateIsPure == []ReevaluatesEqual /\ [][EvaluationFrame]_vars

\* an invoice was analyzed a second time, with a flagged invoice in its
\* history, and the analysis found anomalies
C12_Witness ==
    /\ result.op = "analyze_invoice"
    /\ response.op = "analyze"
    /\ ~result.value.raised
    /\ result.value.anomalies # <<>>
    /\ \E i, j \in 1..Len(invoices) :
          /\ invoices[i].id = result.invoice_id
          /\ invoices[i].risk_score = Some(result.value.risk_score)
          /\ invoices[j].id # result.invoice_id
          /\ invoices[j].is_suspicious
          /\ Lower(invoices[j].parsed_data.vendor_name)
                = Lower(invoices[i].parsed_data.vendor_name)

\* the stored records other than the analyzed one whose vendor name is the
\* analyzed one's up to letter case, in store order
SameVendorOthers ==
    SelectSeq(invoices, LAMBDA inv :
        /\ inv.id # Analyzed.id
        /\ Lower(inv.parsed_data.vendor_name)
              = Lower(Analyzed.parsed_data.vendor_name))

\* C13: the history the detectors read is exactly the stored records whose
\* vendor_name equals the candidate's ignoring letter case and whose id
\* differs from the candidate's: the detectors run exactly when there is
\* such a record, and the result is the one the analysis gives on a store
\* that holds these records and nothing else (neither the candidate itself
\* nor a record of another vendor influences it).
C13_HistoryIsSameVendorOthers ==
    (result.op = "analyze_invoice" /\ result.invoice_id \in StoredIds(invoices))
      => /\ (result.value.ran = <<>>) <=> (SameVendorOthers = <<>>)
         /\ result.value = analyze_invoice(Analyzed, SameVendorOthers)

\* candidate "acme" at 1000 against "Acme" at 2000, "Acme Corp" at 1000 and
\* "ACME" at 2000: the average is taken over the two records of the vendor
\* (50% below 2000, severity 65; with the third record it would be 40% and 50)
C13_Witness ==
    /\ Analysed
    /\ Len(invoices) = 4
    /\ [i \in 1..4 |-> invoices[i].parsed_data.vendor_name]
          = <<"Acme", "Acme Corp", "ACME", "acme">>
    /\ [i \in 1..4 |-> invoices[i].parsed_data.total_amount]
          = <<U(2000), U(1000), U(2000), U(1000)>>
    /\ result.invoice_id = 4
    /\ Len(SameVendorOthers) = 2
    /\ Severities(Found(AMOUNT_DEVIATION)) = <<65>>

\* the only other record is of a vendor whose name starts with the
\* candidate's: the candidate counts as the first invoice of its vendor
C13_WitnessOtherVendor ==
    /\ Analysed
    /\ Len(invoices) = 2
    /\ invoices[1].parsed_data.vendor_name = "Acme Corp"
    /\ invoices[2].parsed_data.vendor_name = "acme"
    /\ result.invoice_id = 2
    /\ result.value.risk_score = 10
    /\ result.value.ran = <<>>

----------------------------------------------------------------------------
(* Claims about InvoiceItem *)

\* the constructor returned an item
Constructed == parsed # Idle /\ ~parsed.outcome.raised
Built == parsed.outcome.value

\* the keyword was given, and given as a number
Given(key) == key \in DOMAIN doc
GivenNumber(key) == Given(key) /\ doc[key].type = "float" /\ ~IsNaN(doc[key])

\* C14: an InvoiceItem constructed with a quantity q >= 0, a unit_price p and
\* a total_price that is missing or zero has total_price = round(q * p, 2);
\* a non-zero total_price that is supplied is stored unchanged, also when it
\* differs from q * p; calculated_total is round(quantity * unit_price, 2) of
\* the stored fields.  On numbers the constructor is InvoiceItem.
C14_TotalPrice ==
    Constructed =>
        /\ (/\ GivenNumber("quantity") /\ doc.quantity.value >= 0
            /\ GivenNumber("unit_price")
            /\ ~Given("total_price") \/ doc.total_price = PyFloat(0))
              => /\ Built.total_price
                      = PyFloat(RoundHalfEven(doc.quantity.value
                                                * doc.unit_price.value, 100))
                 /\ [name |-> Built.name,
                     quantity |-> Built.quantity.value,
                     unit_price |-> Built.unit_price.value,
                     total_price |-> Built.total_price.value]
                      = InvoiceItem(doc.name.value, doc.quantity.value,
                                    doc.unit_price.value, 0)
        /\ (GivenNumber("total_price") /\ doc.total_price.value # 0)
              => Built.total_price = doc.total_price
        /\ (~IsNaN(Built.quantity) /\ ~IsNaN(Built.unit_price))
              => calculated_total(Built)
                   = PyFloat(RoundHalfEven(Built.quantity.value
                                             * Built.unit_price.value, 100))

\* 0.30 at 0.33 without total_price: 0.099 is stored as 0.10
C14_Witness ==
    /\ Constructed
    /\ ~Given("total_price")
    /\ Given("quantity") /\ Given("unit_price")
    /\ doc.quantity = PyFloat(30)
    /\ doc.unit_price = PyFloat(33)
    /\ Built.total_price = PyFloat(10)

\* 3 at 10 with total_price 50: 50 is stored, calculated_total is 30
C14_WitnessSupplied ==
    /\ Constructed
    /\ Given("quantity") /\ Given("unit_price") /\ Given("total_price")
    /\ doc.quantity = PyFloat(U(3))
    /\ doc.unit_price = PyFloat(U(10))
    /\ doc.total_price = PyFloat(U(50))
    /\ Built.total_price = PyFloat(U(50))
    /\ calculated_total(Built) = PyFloat(U(30))

\* C15: every constructed InvoiceItem has quantity >= 0: a negative quantity
\* and a quantity that cannot be parsed as a number are replaced by 0.0, and
\* the item is not rejected for them.
C15_QuantityNotNegative ==
    /\ Constructed => ~IsNaN(Built.quantity) /\ Built.quantity.value >= 0
    /\ (/\ parsed # Idle
        /\ Given("name") /\ GivenNumber("unit_price") /\ GivenNumber("total_price")
        /\ Given("quantity")
        /\ float(doc.quantity).raised \/ Less(float(doc.quantity).value, PyFloat(0)))
          => Constructed /\ Built.quantity = PyFloat(0)

----------------------------------------------------------------------------
(* Claims about parse_invoice_from_json and the create endpoint *)

RequiredFields == {"vendor_name", "invoice_number", "invoice_date", "total_amount"}

\* the create endpoint has answered the body doc
Posted == response # Idle /\ response.op = "create"

\* the datetime an ISO 8601 string stands for
Instant(s) ==
    CASE s = "2024-01-15T10:00:00" -> "2024-01-15T10:00:00"
      [] s = "2024-02-15" -> "2024-02-15"

IsIsoString(v) == v.type = "str" /\ v.value \in {"2024-01-15T10:00:00", "2024-02-15"}

\* a required field of the body is there with a value of another JSON type
\* than the one declared (string, string, ISO date string, number)
Mistyped ==
    \/ "vendor_name" \in DOMAIN doc /\ doc.vendor_name.type # "str"
    \/ "invoice_number" \in DOMAIN doc /\ doc.invoice_number.type # "str"
    \/ "invoice_date" \in DOMAIN doc /\ ~IsIsoString(doc.invoice_date)
    \/ "total_amount" \in DOMAIN doc /\ doc.total_amount.type # "float"

\* the same, with a total_amount that is a string counted as mistyped only
\* when the string does not read as a number
Unacceptable ==
    \/ "vendor_name" \in DOMAIN doc /\ doc.vendor_name.type # "str"
    \/ "invoice_number" \in DOMAIN doc /\ doc.invoice_number.type # "str"
    \/ "invoice_date" \in DOMAIN doc /\ ~IsIsoString(doc.invoice_date)
    \/ /\ "total_amount" \in DOMAIN doc
       /\ doc.total_amount.type # "float"
       /\ ~(doc.total_amount.type = "str" /\ ParseFloat(doc.total_amount.value) # None)

\* parse_invoice_from_json fails on doc, the endpoint has answered 400 and the
\* store is one of the stores the harness starts from
RejectedBody ==
    /\ parse_invoice_from_json(doc) = Raise("InvalidInvoiceFormatError")
    /\ response.status = 400
    /\ invoices \in InitialStores
    /\ nextId = Len(invoices)

\* C16 as stated: parse_invoice_from_json fails with InvalidInvoiceFormatError
\* whenever one of vendor_name, invoice_number, invoice_date, total_amount is
\* missing or mistyped, the create endpoint answers 400 and the store holds
\* the records it held before.
C16_MissingOrMistyped ==
    (Posted /\ (~(RequiredFields \subseteq DOMAIN doc) \/ Mistyped)) => RejectedBody

\* C16: that holds whenever one of the four fields is missing, vendor_name or
\* invoice_number is no string, invoice_date is no ISO 8601 string, or
\* total_amount is neither a number nor a string that reads as a number (a
\* total_amount of "1000" is taken as 1000.0); a step of the endpoint on such
\* a body leaves the store as it was.
C16_MissingOrUnacceptable ==
    /\ [](Posted /\ (~(RequiredFields \subseteq DOMAIN doc) \/ Unacceptable)
            => RejectedBody)
    /\ [][(~(RequiredFields \subseteq DOMAIN doc) \/ Unacceptable)
            => invoices' = invoices /\ nextId' = nextId]_vars

\* a body without invoice_date was posted to a store that holds a record
C16_Witness ==
    /\ Posted
    /\ DOMAIN doc = {"vendor_name", "invoice_number", "total_amount", "currency", "items"}
    /\ ~Mistyped
    /\ response.status = 400
    /\ Len(invoices) = 1

\* a body whose total_amount is null was posted
C16_WitnessMistyped ==
    /\ Posted
    /\ RequiredFields \subseteq DOMAIN doc
    /\ doc.total_amount = PyNone
    /\ doc.vendor_name.type = "str" /\ doc.invoice_number.type = "str"
    /\ IsIsoString(doc.invoice_date)
    /\ response.status = 400

\* a body whose total_amount is the string "1000" was accepted
C16_WitnessNumericString ==
    /\ Posted
    /\ RequiredFields \subseteq DOMAIN doc
    /\ doc.total_amount = PyStr("1000")
    /\ response.status = 201
    /\ get(invoices, response.id).parsed_data.total_amount = U(1000)

\* every required field is there with a value of its type, currency is a
\* string when it is there, and every item has name, quantity and unit_price
WellFormed ==
    /\ RequiredFields \subseteq DOMAIN doc
    /\ ~Mistyped
    /\ "currency" \in DOMAIN doc => doc.currency.type = "str"
    /\ "items" \in DOMAIN doc =>
          \A i \in 1..Len(doc.items) :
              {"name", "quantity", "unit_price"} \subseteq DOMAIN doc.items[i]

\* the items of the body and the ParsedInvoice made of it
GivenItems == IF "items" \in DOMAIN doc THEN doc.items ELSE <<>>
Created == get(invoices, response.id).parsed_data

\* total_price is missing or zero
NoTotal(item) == "total_price" \notin DOMAIN item \/ item.total_price = 0

\* the fields outside the items are those of the body
SameHeader ==
    /\ Created.vendor_name = doc.vendor_name.value
    /\ Created.invoice_number = doc.invoice_number.value
    /\ Created.invoice_date = Instant(doc.invoice_date.value)
    /\ Created.total_amount = doc.total_amount.value
    /\ "currency" \in DOMAIN doc => Created.currency = doc.currency.value
    /\ Len(Created.items) = Len(GivenItems)

\* C17 as stated: a well-formed map comes back field for field, the only
\* exception being an item total_price that is missing or zero, which is
\* replaced by round(quantity * unit_price, 2).
C17_RoundTrip ==
    (Posted /\ WellFormed) =>
        /\ response.status = 201
        /\ SameHeader
        /\ \A i \in 1..Len(GivenItems) :
              /\ Created.items[i].name = GivenItems[i].name
              /\ Created.items[i].quantity = GivenItems[i].quantity
              /\ Created.items[i].unit_price = GivenItems[i].unit_price
              /\ Created.items[i].total_price =
                    IF NoTotal(GivenItems[i])
                    THEN RoundHalfEven(GivenItems[i].quantity
                                         * GivenItems[i].unit_price, 100)
                    ELSE GivenItems[i].total_price

\* C17: a well-formed map comes back field for field with two exceptions: a
\* negative item quantity comes back as 0, and an item total_price that is
\* missing or zero comes back as round(quantity * unit_price, 2) of the
\* quantity that comes back.
C17_RoundTripButQuantity ==
    (Posted /\ WellFormed) =>
        /\ response.status = 201
        /\ SameHeader
        /\ \A i \in 1..Len(GivenItems) :
              /\ Created.items[i].name = GivenItems[i].name
              /\ Created.items[i].quantity =
                    IF GivenItems[i].quantity < 0 THEN 0
                    ELSE GivenItems[i].quantity
              /\ Created.items[i].unit_price = GivenItems[i].unit_price
              /\ Created.items[i].total_price =
                    IF NoTotal(GivenItems[i])
                    THEN RoundHalfEven(Created.items[i].quantity
                                         * GivenItems[i].unit_price, 100)
                    ELSE GivenItems[i].total_price

\* a well-formed body with a currency, an item without total_price (3 at
\* 0.33, stored with 0.99) and an item with quantity -5 and total_price 50
\* (stored with quantity 0 and total_price 50) was created
C17_Witness ==
    /\ Posted
    /\ WellFormed
    /\ response.status = 201
    /\ Created.currency = "EUR"
    /\ Len(Created.items) = 2
    /\ Created.items[1] = Item("Widget", U(3), 33, 99)
    /\ Created.items[2] = Item("Gadget", 0, U(100), U(50))

\* a total_price of zero came back as quantity * unit_price
C17_WitnessZeroTotal ==
    /\ Posted
    /\ WellFormed
    /\ Len(GivenItems) = 1
    /\ "total_price" \in DOMAIN GivenItems[1]
    /\ GivenItems[1].total_price = 0
    /\ Created.items[1].total_price = U(20)

----------------------------------------------------------------------------
(* Claims about the life of a record *)

\* the ids of the records that are there before and after a step
Kept == StoredIds(invoices) \cap StoredIds(invoices')

\* a step of create or upload that answered 201
Ingested == response'.op \in {"create", "upload"} /\ response'.status = 201

IngestionAddsOneRecord ==
    Ingested =>
        /\ Len(invoices') = Len(invoices) + 1
        /\ response'.id \notin StoredIds(invoices)
        /\ response'.id \notin 1..nextId
        /\ StoredIds(invoices') = StoredIds(invoices) \cup {response'.id}
        /\ \A id \in StoredIds(invoices) : get(invoices', id) = get(invoices, id)

ParsedDataIsKept ==
    \A id \in Kept : get(invoices', id).parsed_data = get(invoices, id).parsed_data

\* C18: a create or upload answered 201 adds exactly one record, under an id
\* that no record has or had, and leaves the other records as they were; no
\* step of any endpoint changes the parsed_data of a record that stays; no
\* two records share an id.
C18_OneRecordPerIngestion ==
    /\ [](Cardinality(StoredIds(invoices)) = Len(invoices))
    /\ [][IngestionAddsOneRecord /\ ParsedDataIsKept]_vars

\* the same body was created twice: two records with the same parsed_data
\* under two ids, the first one as it was made
C18_Witness ==
    /\ response = Answer("create", 2, 201)
    /\ Len(invoices) = 2
    /\ invoices[1].id = 1 /\ invoices[2].id = 2
    /\ invoices[1].parsed_data = invoices[2].parsed_data
    /\ invoices[1] = Invoice(1, invoices[1].parsed_data, NOW)

\* a record was analyzed and submitted after a second one arrived by upload
C18_WitnessOperations ==
    /\ Len(invoices) = 2
    /\ result # Idle /\ result.invoice_id = 1
    /\ invoices[1].submitted_to_erpnext
    /\ invoices[1].risk_score # None
    /\ invoices[2].parsed_data.vendor_name # invoices[1].parsed_data.vendor_name

\* the ids that were handed out and whose record is gone: every id up to
\* nextId was stored when it was handed out (C18), so these are the deleted
Deleted == (1..nextId) \ StoredIds(invoices)

\* a step of the delete endpoint on id
DeleteOf(id) == response'.op = "delete" /\ response'.id = id

DeleteRemovesThatRecord ==
    \A id \in InvoiceIds :
        /\ (DeleteOf(id) /\ id \in StoredIds(invoices)) =>
              /\ response'.status = 200
              /\ StoredIds(invoices') = StoredIds(invoices) \ {id}
              /\ Len(invoices') = Len(invoices) - 1
              /\ \A other \in StoredIds(invoices') :
                    get(invoices', other) = get(invoices, other)
        /\ (DeleteOf(id) /\ id \notin StoredIds(invoices)) =>
              /\ response'.status = 404
              /\ invoices' = invoices
              /\ erpnext' = erpnext

DeletedStaysNotFound ==
    \A id \in Deleted :
        /\ id \notin StoredIds(invoices')
        /\ (response'.op \in {"get", "analyze", "delete", "submit"}
              /\ response'.id = id) => response'.status = 404

\* C19: delete of a stored id answers 200 and removes that record and no
\* other; from then on the id is not stored again and every get, analyze,
\* delete or submit of it answers 404; delete of an id that is not stored
\* answers 404 and leaves the store as it is.
C19_DeleteRemovesExactlyThat ==
    [][DeleteRemovesThatRecord /\ DeletedStaysNotFound]_vars

\* the first of two records was deleted and then asked to be analyzed; the
\* second is still there
C19_Witness ==
    /\ nextId = 2
    /\ StoredIds(invoices) = {2}
    /\ response = [op |-> "analyze", id |-> 1, status |-> 404]

\* a submit of a deleted id
C19_WitnessSubmit ==
    /\ 1 \in Deleted
    /\ response = SubmitAnswer(1, 404, "not found", FALSE)

\* a delete of an id that was never handed out
C19_WitnessUnknown ==
    /\ nextId = 1
    /\ StoredIds(invoices) = {1}
    /\ response = Answer("delete", 2, 404)

\* the stored ids whose record says it was submitted
Submitted == { id \in StoredIds(invoices) : get(invoices, id).submitted_to_erpnext }

\* the purchase invoices made for id
PurchaseInvoicesOf(id) ==
    { i \in 1..Len(erpnext.purchase_invoices) : erpnext.purchase_invoices[i].id = id }

SubmitSucceeds ==
    (response'.op = "submit" /\ response'.status = 200) =>
        /\ response'.id \in StoredIds(invoices')
        /\ get(invoices', response'.id).submitted_to_erpnext
        /\ get(invoices', response'.id).erpnext_invoice_name # None

SubmittedStays ==
    \A id \in Submitted :
        /\ id \in StoredIds(invoices') =>
              /\ get(invoices', id).submitted_to_erpnext
              /\ get(invoices', id).erpnext_invoice_name
                    = get(invoices, id).erpnext_invoice_name
        /\ (response'.op = "submit" /\ response'.id = id) =>
              /\ response'.status = 400
              /\ response'.detail = "already been submitted"
              /\ ~response'.called
              /\ erpnext' = erpnext

\* C20: a submit answered 200 leaves the record with submitted_to_erpnext
\* true; from then on, while the record is stored, the flag stays true and
\* erpnext_invoice_name stays what it is, and every submit of that id is
\* answered 400 "already been submitted" without a call of
\* create_purchase_invoice; no id has more than one purchase invoice.
C20_SubmittedAtMostOnce ==
    /\ [](\A id \in InvoiceIds : Cardinality(PurchaseInvoicesOf(id)) <= 1)
    /\ [][SubmitSucceeds /\ SubmittedStays]_vars

\* a submitted record was submitted again
C20_Witness ==
    /\ response = SubmitAnswer(1, 400, "already been submitted", FALSE)
    /\ 1 \in Submitted
    /\ get(invoices, 1).erpnext_invoice_name = Some("ACC-PINV-2024-00001")
    /\ Cardinality(PurchaseInvoicesOf(1)) = 1

\* a submitted record was analyzed afterwards
C20_WitnessAnalyzed ==
    /\ response = [op |-> "analyze", id |-> 1, status |-> 200]
    /\ 1 \in Submitted

----------------------------------------------------------------------------
(* Claims about arithmetic faults of the detectors *)

\* the analyze endpoint has run analyze_invoice on a stored record
Evaluated == result # Idle /\ response.op = "analyze"

HistoricalNames == { Lower(AllItems(History)[i].name) : i \in 1..Len(AllItems(History)) }
HistoricalTotal == SumSeq([i \in 1..Len(History) |-> History[i].parsed_data.total_amount])

\* a candidate item that the price and quantity detectors find in the history
Matched(it) == Count(it.name) > 0

ZeroTotalWithNewItem ==
    /\ Candidate.parsed_data.total_amount = 0
    /\ \E i \in 1..Len(CandidateItems) : Lower(CandidateItems[i].name) \notin HistoricalNames

ZeroAveragePrice ==
    \E i \in 1..Len(CandidateItems) :
        Matched(CandidateItems[i]) /\ PriceSum(CandidateItems[i].name) = 0

ZeroAverageQuantity ==
    \E i \in 1..Len(CandidateItems) :
        Matched(CandidateItems[i]) /\ QuantitySum(CandidateItems[i].name) = 0

ZeroAverageQuantityBelow ==
    \E i \in 1..Len(CandidateItems) :
        /\ Matched(CandidateItems[i])
        /\ QuantitySum(CandidateItems[i].name) = 0
        /\ CandidateItems[i].quantity > 0

\* the history is not empty and one of the divisors the claim lists is zero
ZeroDivisor ==
    /\ History # <<>>
    /\ \/ ZeroTotalWithNewItem
       \/ ZeroAveragePrice
       \/ ZeroAverageQuantity
       \/ HistoricalTotal = 0

\* the same, the average quantity counted only for an item whose own
\* quantity is above it
DivisionByZero ==
    /\ History # <<>>
    /\ \/ ZeroTotalWithNewItem
       \/ ZeroAveragePrice
       \/ ZeroAverageQuantityBelow
       \/ HistoricalTotal = 0

\* analyze_invoice raised and the endpoint answered 500
Surfaced == result.value.raised /\ response.status = 500

\* a step in which analyze_invoice raises leaves the store, with the risk
\* fields of every record, as it was
FaultKeepsStore == result'.value.raised => invoices' = invoices

C21_WitnessZeroQuantity ==
    /\ Evaluated
    /\ ZeroAverageQuantity
    /\ ~result.value.raised
    /\ response.status = 200
    /\ Candidate.risk_score = Some(0)

\* the candidate total is 0 and its item is new
C21_WitnessNewItem ==
    /\ Evaluated
    /\ ZeroTotalWithNewItem
    /\ ~ZeroAveragePrice /\ ~ZeroAverageQuantity /\ HistoricalTotal # 0
    /\ result.value.raised
    /\ result.value.ran = <<PRICE_INCREASE, QUANTITY_DEVIATION, NEW_ITEM>>

----------------------------------------------------------------------------
(* Claims about the explanation *)

\* the explanation of the returned result, its lines in order
Explanation == result.value.explanation

\* the level a header shows for a score
LevelOf(risk_score) ==
    CASE risk_score >= 70 -> "HIGH RISK"
      [] risk_score >= 50 /\ risk_score < 70 -> "MODERATE RISK"
      [] risk_score < 50 -> "LOW RISK"

C22_WitnessModerate ==
    /\ Analysed
    /\ result.value.risk_score = 50
    /\ Explanation[1].text = "MODERATE RISK"

\* a LOW header
C22_WitnessLow ==
    /\ Analysed
    /\ result.value.anomalies # <<>>
    /\ result.value.risk_score < 50
    /\ Explanation[1].text = "LOW RISK"

\* no detection with a history
C22_WitnessNone ==
    /\ Analysed
    /\ History # <<>>
    /\ result.value.anomalies = <<>>
    /\ Len(Explanation) = 1

----------------------------------------------------------------------------
(* Claims about the table path *)

\* what _extract_from_tables does on the tables of the document
TableStage ==
    IF doc.pdfplumber.tables = <<>> THEN Return(None)
    ELSE _extract_from_tables(doc.pdfplumber.tables,
                              Text(doc.pdfplumber.lines, doc.pdfplumber.lines # <<>>))

\* parse_invoice ran and pdfplumber opened the document
TablesRead ==
    /\ parsed.op = "parse_invoice"
    /\ EndsWithPdf(Lower(doc.filename))
    /\ doc.libs.pdfplumber
    /\ ~doc.pdfplumber.raises

\* the stage returned an invoice
ReturnedInvoice(stage) == ~stage.raised /\ stage.value # None

\* parse_invoice returned the invoice of the table path
ByTables == TablesRead /\ ReturnedInvoice(TableStage)

\* the rows under the header of every table, each with its header
DataRows ==
    LET tables == doc.pdfplumber.tables
    IN Flatten([t \in 1..Len(tables) |->
                  IF Len(tables[t]) < 2 THEN <<>>
                  ELSE [k \in 1..(Len(tables[t]) - 1) |->
                          [headers |-> tables[t][1], row |-> tables[t][k + 1]]]])

\* the numbers the cells of a row hold under the headers of one kind, and
\* the numbers any of its cells holds
NumbersUnder(kind, hr) ==
    { ParseFloat(StripMoney(Strip(hr.row[i])))[1] :
        i \in { c \in 1..Min(Len(hr.headers), Len(hr.row)) :
                   /\ ColumnKind(Lower(hr.headers[c])) = kind
                   /\ ParseFloat(StripMoney(Strip(hr.row[c]))) # None } }

NumbersIn(hr) ==
    { ParseFloat(StripMoney(Strip(hr.row[i])))[1] :
        i \in { c \in 1..Len(hr.row) :
                   ParseFloat(StripMoney(Strip(hr.row[c]))) # None } }

\* the item has the name and the quantity of the row; its unit price is the
\* one the row states when that is above 0, and otherwise a number of the
\* row divided by the quantity
ReadFrom(it, hr) ==
    /\ \E c \in 1..Min(Len(hr.headers), Len(hr.row)) :
          ColumnKind(Lower(hr.headers[c])) = "name" /\ Strip(hr.row[c]) = it.name
    /\ it.quantity \in NumbersUnder("qty", hr)
    /\ IF \E price \in NumbersUnder("price", hr) : price > 0
       THEN it.unit_price \in NumbersUnder("price", hr)
       ELSE \E total \in NumbersIn(hr) :
               it.unit_price = RoundHalfEven(100 * total, it.quantity)

\* C23: every item the table path returns has total_price =
\* round(quantity * unit_price, 2); name and quantity are those of a row, and
\* the unit price is the one that row states when it states one above 0,
\* otherwise round(total / quantity, 2) for a number of the row: the total of
\* the row enters the item only through a derived unit price.
C23_TableTotalRecomputed ==
    LET Holds(stage) ==
            (TablesRead /\ ReturnedInvoice(stage)) =>
                /\ Extracted = stage.value[1]
                /\ \A i \in 1..Len(Extracted.items) :
                      /\ Extracted.items[i].total_price =
                            RoundHalfEven(Extracted.items[i].quantity
                                            * Extracted.items[i].unit_price, 100)
                      /\ \E k \in 1..Len(DataRows) :
                            ReadFrom(Extracted.items[i], DataRows[k])
    IN Holds(TableStage)

\* the row Bolt | 1000 | | $1.00 came back as 1000 at 0.00 with total 0.00,
\* not 1.00
C23_Witness ==
    /\ ByTables
    /\ \E i \in 1..Len(Extracted.items) :
          Extracted.items[i] = Item("Bolt", U(1000), 0, 0)

\* a row with a unit price and a total: the unit price is the stated one
C23_WitnessStated ==
    /\ ByTables
    /\ Len(DataRows) = 1
    /\ DataRows[1].row = <<"Widget", "10", "$125.00", "$1,250.00">>
    /\ Extracted.items = << Item("Widget", U(10), U(125), U(1250)) >>

\* the rows of all tables in table and row order, headers included
AllRows == Flatten(doc.pdfplumber.tables)

\* the first number with a $ in the row
DollarNumber(row) ==
    LET holding == { c \in 1..Len(row) : /\ "$" \in Substrings(row[c])
                                         /\ ParseFloat(StripMoney(row[c])) # None }
    IN ParseFloat(StripMoney(row[MinOf(holding)]))[1]

\* the row has the token "total" and a number with a $
StatesTotal(row) ==
    /\ \E c \in 1..Len(row) : "total" \in Substrings(Lower(row[c]))
    /\ \E c \in 1..Len(row) : /\ "$" \in Substrings(row[c])
                              /\ ParseFloat(StripMoney(row[c])) # None

StatedTotals == SelectSeq(AllRows, StatesTotal)

\* C24: the total_amount of an invoice of the table path is the sum of the
\* total_price of its items, unless a row of a table has the token "total"
\* and a number with a $: then it is the number of the last such row, in
\* table and row order.
C24_TableTotalAmount ==
    ByTables =>
        Extracted.total_amount =
            IF StatedTotals = <<>>
            THEN SumSeq([i \in 1..Len(Extracted.items) |->
                            Extracted.items[i].total_price])
            ELSE DollarNumber(StatedTotals[Len(StatedTotals)])

\* a table that states 1250.00 before a table whose item sums to 1250.00
\* and whose last row states 1350.00
C24_Witness ==
    /\ ByTables
    /\ Len(StatedTotals) = 2
    /\ DollarNumber(StatedTotals[1]) = U(1250)
    /\ DollarNumber(StatedTotals[2]) = U(1350)
    /\ Len(Extracted.items) = 1
    /\ Extracted.items[1].total_price = U(1250)
    /\ Extracted.total_amount = U(1350)

\* two items and no row that states a total
C24_WitnessSum ==
    /\ ByTables
    /\ StatedTotals = <<>>
    /\ Len(Extracted.items) = 2
    /\ Extracted.items[1].total_price = U(1250)
    /\ Extracted.items[2].total_price = U(100)
    /\ Extracted.total_amount = U(1350)

\* C30: every item the table path returns has quantity > 0 and
\* unit_price > 0, also when the unit price was derived from the total of
\* the row.
C30_TableItemsPositive ==
    ByTables =>
        \A i \in 1..Len(Extracted.items) :
            /\ Extracted.items[i].quantity > 0
            /\ Extracted.items[i].unit_price > 0

\* the quantities alone
TableQuantitiesPositive ==
    ByTables => \A i \in 1..Len(Extracted.items) : Extracted.items[i].quantity > 0

----------------------------------------------------------------------------
(* Claims about the text path *)

\* parse_invoice returned what the text path made of the text of pdfplumber
\* (no tables, and the text is long enough)
ByText ==
    /\ parsed.op = "parse_invoice"
    /\ EndsWithPdf(Lower(doc.filename))
    /\ doc.libs.pdfplumber
    /\ ~doc.pdfplumber.raises
    /\ doc.pdfplumber.tables = <<>>
    /\ StrippedLen(doc.pdfplumber.lines) >= 50

\* the numeric tokens of a line, in order: the words float() accepts once $
\* and commas are removed
NumericTokens(line) ==
    LET numeric == SelectSeq(line, LAMBDA w : ParseFloat(StripMoney(w)) # None)
    IN [i \in 1..Len(numeric) |-> ParseFloat(StripMoney(numeric[i]))[1]]

\* the lines with at least two numeric tokens
TwoNumberLines ==
    SelectSeq(doc.pdfplumber.lines, LAMBDA line : Len(NumericTokens(line)) >= 2)

\* two numeric tokens n1, n2 give the item it
FromTwo(it, n1, n2) ==
    IF n1 < U(1000)
    THEN /\ it.quantity = n1
         /\ it.unit_price = n2
         /\ it.total_price = RoundHalfEven(n1 * n2, 100)
    ELSE /\ it.unit_price = n1
         /\ it.total_price = n2
         \* round(total / unit_price, 1): a whole number of tenths
         /\ it.quantity = 10 * RoundHalfEven(10 * n2, n1)

\* the first three numeric tokens are the item
FromThree(it, n1, n2, n3) ==
    it.quantity = n1 /\ it.unit_price = n2 /\ it.total_price = n3

\* the same, a unit price or a total of 0 being derived from the other two
FromThreeOrDerived(it, n1, n2, n3) ==
    /\ it.quantity = n1
    /\ it.unit_price = IF n2 = 0 THEN RoundHalfEven(100 * n3, n1) ELSE n2
    /\ it.total_price = IF n3 = 0 THEN RoundHalfEven(n1 * n2, 100) ELSE n3

AllPositive(it) == it.quantity > 0 /\ it.unit_price > 0 /\ it.total_price > 0

\* C25 as stated: every item of the text path comes from a line with at least
\* two numeric tokens; with three or more it is the first three as
\* (quantity, unit_price, total), with two it is (quantity, unit_price) and
\* the product when the first is below 1000 and otherwise (unit_price, total)
\* and quantity = round(total / unit_price, 1); quantity, unit_price and
\* total_price of every item are above 0.
C25_NumbersByPosition ==
    ByText =>
        /\ Len(Extracted.items) <= Len(TwoNumberLines)
        /\ \A i \in 1..Len(Extracted.items) :
              /\ AllPositive(Extracted.items[i])
              /\ \E k \in 1..Len(TwoNumberLines) :
                    LET n == NumericTokens(TwoNumberLines[k])
                    IN IF Len(n) >= 3
                       THEN FromThree(Extracted.items[i], n[1], n[2], n[3])
                       ELSE FromTwo(Extracted.items[i], n[1], n[2])

\* C25: the same, except that with three or more numeric tokens a second
\* number of 0 is replaced by round(total / quantity, 2) and a third number
\* of 0 by round(quantity * unit_price, 2).
C25_NumbersByPositionOrDerived ==
    ByText =>
        /\ Len(Extracted.items) <= Len(TwoNumberLines)
        /\ \A i \in 1..Len(Extracted.items) :
              /\ AllPositive(Extracted.items[i])
              /\ \E k \in 1..Len(TwoNumberLines) :
                    LET n == NumericTokens(TwoNumberLines[k])
                    IN IF Len(n) >= 3
                       THEN FromThreeOrDerived(Extracted.items[i], n[1], n[2], n[3])
                       ELSE FromTwo(Extracted.items[i], n[1], n[2])

\* Service 1500.00 3000.00 came back as 2.0 at 1500.00, total 3000.00, after
\* Gadget 2 x $50.00 as 2 at 50.00, total 100.00
C25_Witness ==
    /\ ByText
    /\ Len(doc.pdfplumber.lines) = 3
    /\ doc.pdfplumber.lines[2] = <<"Gadget", "2", "x", "$50.00">>
    /\ doc.pdfplumber.lines[3] = <<"Service", "1500.00", "3000.00">>
    /\ Extracted.items = << Item("Gadget", U(2), U(50), U(100)),
                            Item("Service", U(2), U(1500), U(3000)) >>

\* three numbers with a unit price of 0: Gadget 2 0 50.00 came back as 2 at
\* 25.00; one number (Shipping 25.00) and a negative quantity gave no item
C25_WitnessDerived ==
    /\ ByText
    /\ Len(doc.pdfplumber.lines) = 3
    /\ doc.pdfplumber.lines[2] = <<"Gadget", "2", "0", "50.00">>
    /\ doc.pdfplumber.lines[3] = <<"Shipping", "25.00">>
    /\ Extracted.items = << Item("Gadget", U(2), U(25), U(50)) >>

\* three numbers: Widget 10 125.00 1250.00, and Refund -1 50.00 -50.00 gave
\* no item
C25_WitnessThree ==
    /\ ByText
    /\ Len(doc.pdfplumber.lines) = 3
    /\ doc.pdfplumber.lines[2] = <<"Widget", "10", "125.00", "1250.00">>
    /\ doc.pdfplumber.lines[3] = <<"Refund", "-1", "50.00", "-50.00">>
    /\ Extracted.items = << Item("Widget", U(10), U(125), U(1250)) >>

\* what the text metadata step of the table path resolved from full_text or
\* synthesized (lines 129-167), before the rows of the tables are read
TextStepNumber ==
    OrElse(InvoiceNumberFromFullText(Words(doc.pdfplumber.lines)),
           "INV-" \o UUID8)

\* C26: the invoice number the text path returns, and the invoice number of
\* the table path where it is the one its text metadata step resolved or
\* synthesized, begins with "INV-".
C26_InvoiceNumberPrefix ==
    /\ ByText => StartsWithInvDash(Extracted.invoice_number)
    /\ (ByTables /\ Extracted.invoice_number = TextStepNumber)
          => StartsWithInvDash(Extracted.invoice_number)

\* what holds instead: a number without the prefix is a capture that begins
\* with INV, returned as captured
InvoiceNumberBeginsWithINV ==
    (ByText \/ (ByTables /\ Extracted.invoice_number = TextStepNumber))
        => \/ StartsWithInvDash(Extracted.invoice_number)
           \/ StartsWithINV(Extracted.invoice_number)

\* the text path returned INV2024001
C26_TextWithoutDash ==
    ByText /\ Extracted.invoice_number = "INV2024001"

\* the table path returned a number of its text metadata step without INV-
C26_TablesWithoutDash ==
    /\ ByTables
    /\ Extracted.invoice_number = TextStepNumber
    /\ ~StartsWithInvDash(Extracted.invoice_number)

----------------------------------------------------------------------------
(* Claims about what the analyze and submit requests write *)

\* an analyze request that stored a result writes its three values to the
\* record of its id; every other field and every other record stay, and an
\* analyze request that stored none changes nothing
AnalyzeWritesRiskFields ==
    response'.op = "analyze"
      => /\ Len(invoices') = Len(invoices)
         /\ \A i \in 1..Len(invoices) :
               IF invoices[i].id = response'.id /\ response'.status = 200
               THEN invoices'[i] =
                      [invoices[i] EXCEPT
                          !.is_suspicious = result'.value.is_suspicious,
                          !.risk_score = Some(result'.value.risk_score),
                          !.anomaly_explanation = Some(result'.value.explanation)]
               ELSE invoices'[i] = invoices[i]

\* C27: the analyze operation on a stored id changes only is_suspicious,
\* risk_score and anomaly_explanation of that one record, to the values of
\* the returned AnomalyResult; its id, parsed_data, uploaded_at,
\* submitted_to_erpnext and erpnext_invoice_name and every field of every
\* other record are unchanged.
C27_AnalyzeFrame == [][AnalyzeWritesRiskFields]_vars

\* a submitted record was analyzed and holds the result, next to a record of
\* the same vendor that holds the risk fields of an earlier analysis
C27_Witness ==
    /\ response.op = "analyze"
    /\ response.status = 200
    /\ result.op = "analyze_invoice"
    /\ \E i, j \in 1..Len(invoices) :
          /\ invoices[i].id = response.id
          /\ invoices[i].submitted_to_erpnext
          /\ invoices[i].erpnext_invoice_name # None
          /\ invoices[i].risk_score = Some(result.value.risk_score)
          /\ invoices[i].is_suspicious = result.value.is_suspicious
          /\ invoices[j].id # response.id
          /\ invoices[j].risk_score # None
          /\ invoices[j].risk_score # invoices[i].risk_score
          /\ Lower(invoices[j].parsed_data.vendor_name)
                = Lower(invoices[i].parsed_data.vendor_name)

\* the records of the store with the id invoice_id
RecordsOf(store, invoice_id) ==
    { store[i] : i \in { k \in 1..Len(store) : store[k].id = invoice_id } }

\* a submit request whose create_purchase_invoice call failed is answered
\* with an error, and leaves the record unsubmitted and without a name, and
\* ERPNext without a new purchase invoice
FailedCallLeavesUnsubmitted ==
    (response'.op = "submit" /\ response'.called /\ response'.status # 200)
      => /\ response'.status = 500
         /\ erpnext' = erpnext
         /\ RecordsOf(invoices', response'.id) # {}
         /\ \A inv \in RecordsOf(invoices', response'.id) :
               /\ ~inv.submitted_to_erpnext
               /\ inv.erpnext_invoice_name = None

\* a submit request is rejected as already submitted only for a record that
\* is marked as submitted
RejectedOnlyIfMarked ==
    (response'.op = "submit" /\ response'.detail = "already been submitted")
      => \A inv \in RecordsOf(invoices, response'.id) : inv.submitted_to_erpnext

\* a record is marked as submitted only if a call of create_purchase_invoice
\* for its id returned, and it carries the name that call returned
MarkedOnlyAfterSuccess ==
    \A i \in 1..Len(invoices) :
        IF invoices[i].submitted_to_erpnext
        THEN \E k \in 1..Len(erpnext.purchase_invoices) :
                /\ erpnext.purchase_invoices[k].id = invoices[i].id
                /\ invoices[i].erpnext_invoice_name
                      = Some(erpnext.purchase_invoices[k].name)
        ELSE invoices[i].erpnext_invoice_name = None

\* C28: if create_purchase_invoice fails during submit-to-erpnext, the
\* request is answered with an error and the record keeps
\* submitted_to_erpnext = false and erpnext_invoice_name unset, so that a
\* later submit request for the id is not rejected as already submitted;
\* submitted_to_erpnext is true only for records whose call returned.
C28_FailedSubmitIsNotMarked ==
    /\ []MarkedOnlyAfterSuccess
    /\ [][FailedCallLeavesUnsubmitted /\ RejectedOnlyIfMarked]_vars

\* the call failed for a record that is stored unsubmitted, next to a record
\* that was submitted
C28_Witness ==
    /\ response.op = "submit"
    /\ response.called
    /\ response.status = 500
    /\ \E i, j \in 1..Len(invoices) :
          /\ invoices[i].id = response.id
          /\ ~invoices[i].submitted_to_erpnext
          /\ invoices[i].erpnext_invoice_name = None
          /\ invoices[j].submitted_to_erpnext

\* the call failed and the analysis before it stored its result
C28_WitnessAnalyzed ==
    /\ response.op = "submit"
    /\ response.status = 500
    /\ result.op = "analyze_invoice"
    /\ \E i \in 1..Len(invoices) :
          /\ invoices[i].id = response.id
          /\ invoices[i].risk_score # None
          /\ ~invoices[i].submitted_to_erpnext

----------------------------------------------------------------------------
(* Claims about which detector examines an item *)

\* the historical items whose name is name up to letter case
NamedIgnoringCase(name) ==
    SelectSeq(AllItems(History), LAMBDA it : Lower(it.name) = Lower(name))

\* a detection of the type for the item is in the returned list
Reported(type, it) ==
    \E k \in 1..Len(Found(type)) : Found(type)[k].item_name = Some(it.name)

\* unit price more than 20% above the average of the historical items of
\* that name up to letter case
PriceUpIgnoringCase(it) ==
    LET named == NamedIgnoringCase(it.name)
        total == SumSeq([i \in 1..Len(named) |-> named[i].unit_price])
    IN 100 * (it.unit_price * Len(named) - total) > 20 * total

\* quantity more than twice the average of the historical items of that name
\* up to letter case
AboveAverageIgnoringCase(it) ==
    LET named == NamedIgnoringCase(it.name)
        total == SumSeq([i \in 1..Len(named) |-> named[i].quantity])
    IN it.quantity * Len(named) > 2 * total

\* C29: with a non-empty history every candidate item is examined by a
\* per-item detector: an item whose name is absent from the history ignoring
\* case is reported as a new item, and an item whose name is present ignoring
\* case is compared with the historical items of that name, also when they
\* differ from it in letter case: a unit price more than 20% above their
\* average is reported as a price increase and a quantity above twice their
\* average as a quantity deviation.
C29_EveryItemExamined ==
    (Analysed /\ History # <<>>) =>
        \A i \in 1..Len(CandidateItems) :
            LET it == CandidateItems[i]
            IN IF NamedIgnoringCase(it.name) = <<>>
               THEN Reported(NEW_ITEM, it)
               ELSE /\ PriceUpIgnoringCase(it) => Reported(PRICE_INCREASE, it)
                    /\ AboveAverageIgnoringCase(it)
                          => Reported(QUANTITY_DEVIATION, it)

\* what holds instead: the same for the items whose name occurs in the
\* history letter for letter
ExactNamesExamined ==
    (Analysed /\ History # <<>>) =>
        \A i \in 1..Len(CandidateItems) :
            LET it == CandidateItems[i]
            IN IF NamedIgnoringCase(it.name) = <<>>
               THEN Reported(NEW_ITEM, it)
               ELSE Count(it.name) = Len(NamedIgnoringCase(it.name))
                      => /\ PriceUpIgnoringCase(it) => Reported(PRICE_INCREASE, it)
                         /\ AboveAverageIgnoringCase(it)
                               => Reported(QUANTITY_DEVIATION, it)

\* widget, 40 at 250, against a history of Widget, 10 at 100: no detection
\* names the item
C29_Unexamined ==
    /\ Analysed
    /\ History # <<>>
    /\ \E i \in 1..Len(CandidateItems) :
          /\ CandidateItems[i].name = "widget"
          /\ CandidateItems[i].unit_price = U(250)
          /\ Count("widget") = 0
          /\ NamedIgnoringCase("widget") # <<>>
          /\ \A k \in 1..Len(result.value.anomalies) :
                result.value.anomalies[k].item_name # Some("widget")

====
